---- MODULE Spec2Model ----
(***************************************************************************)
(* Model of the financial core of the pharmacy billing backend: Money,     *)
(* ClientBalance, the Client and Transaction aggregates, and the           *)
(* create-transaction / process-payment use cases over the repositories.   *)
(*                                                                         *)
(* Amounts are integers counting cents (the stored Decimal scaled by 100); *)
(* a Decimal that has not been quantized yet is an integer counting        *)
(* thousandths.  Python's None is the empty tuple, a present value v is    *)
(* the one-element tuple <<v>>.                                            *)
(***************************************************************************)
EXTENDS Integers, Sequences, FiniteSets, TLC

VARIABLES
    clock,      \* the value datetime.utcnow() returns
    txn,        \* a Transaction entity held in memory
    txnCall,    \* the last method called on txn, with its arguments
    txnResult,  \* "none" when that call returned, else the exception it raised
    ledger,     \* a ClientBalance value
    ledgerInit, \* the ClientBalance the sequence of ledger calls started from
    ledgerOps,  \* the apply_charge / apply_payment calls made on it, in order
    ledgerResult, \* "none" when the last ledger call returned, else its exception
    ledgerQuery, \* the last read-only call on ledger, with what it returned
    valueCall,  \* the last value-object call: operation, arguments, outcome
    client,     \* a Client entity held in memory
    clientCall, \* the last method called on client, with its arguments
    clientResult, \* "none" when that call returned, else the exception it raised
    clientRows, \* the clients table: client id -> stored row
    txnRows,    \* the stored transactions, in the order they were created
    nextSeq,    \* the next sequence number of each (pharmacy, transaction type)
    procs,      \* the use-case executions: position, command, loaded aggregates
    appliedCount, \* per transaction id: how often its total reached a balance
    appliedSum  \* per client id: payments minus charges written to its row

txnVars == <<txn, txnCall, txnResult>>
ledgerVars == <<ledger, ledgerInit, ledgerOps, ledgerResult, ledgerQuery>>
clientVars == <<client, clientCall, clientResult>>
ucVars == <<clientRows, txnRows, nextSeq, procs, appliedCount, appliedSum>>
vars == <<clock, txnVars, ledgerVars, clientVars, ucVars, valueCall>>
notTxnVars == <<ledgerVars, clientVars, ucVars, valueCall>>
notLedgerVars == <<txnVars, clientVars, ucVars, valueCall>>
notClientVars == <<txnVars, ledgerVars, ucVars, valueCall>>
notUcVars == <<clock, txnVars, ledgerVars, clientVars, valueCall>>
notValueVars == <<clock, txnVars, ledgerVars, clientVars, ucVars>>

----------------------------------------------------------------------------
(* Bounds of the model *)

MaxClock == 2
MaxOps == 3        \* calls in a sequence of ledger calls
MaxBalance == 6    \* largest |current_balance| a Client is driven to, in cents
MaxItems == 1      \* line items added to a Transaction

\* The precision of the default arithmetic context of the decimal module.
DecimalPrec == 28

----------------------------------------------------------------------------
(* Python values *)

None == <<>>
Some(v) == <<v>>
Val(o) == o[1]

\* Python truthiness of an optional string: None and "" are falsy.
Truthy(o) == o # None /\ o # Some("")

\* The outcome of a call: the exception raised ("none" when it returned) and
\* the value returned or, for a method of an aggregate, the aggregate after it.
Ok(v) == [err |-> "none", val |-> v]
Raise(e, v) == [err |-> e, val |-> v]

----------------------------------------------------------------------------
(* Money *)

Currencies == {"ARS", "USD"}

\* Decimal.quantize(Decimal("0.01"), rounding=ROUND_HALF_UP) of the value
\* n / d cents (d > 0): the result in cents, ties away from zero.
QuantizeRatio(n, d) ==
    IF n >= 0 THEN (2 * n + d) \div (2 * d) ELSE -((d - 2 * n) \div (2 * d))

\* The same of a value given in thousandths.
Quantize(mills) == QuantizeRatio(mills, 10)

\* Money.__post_init__ on an amount of n / d cents: the currency code must
\* have 3 characters, the amount is rounded to 2 decimal places.
MoneyOf(n, d, currency) ==
    IF Len(currency) # 3
    THEN Raise("ValueError", None)
    ELSE Ok([amount |-> QuantizeRatio(n, d), currency |-> currency])

\* Money.__post_init__ on an amount given in thousandths.
MoneyInit(mills, currency) ==
    IF Len(currency) # 3
    THEN Raise("ValueError", None)
    ELSE Ok([amount |-> Quantize(mills), currency |-> currency])

\* str.upper on a currency code.
Upper(currency) ==
    CASE currency = "ars" -> "ARS"
      [] currency = "usd" -> "USD"
      [] OTHER -> currency

\* Money.create
MoneyCreate(mills, currency) == MoneyInit(mills, Upper(currency))

\* A Money of a whole number of cents in a valid currency.
Cents(c, currency) == MoneyInit(c * 10, currency).val

MoneyZero(currency) == MoneyInit(0, currency)

MoneyAdd(a, b) ==
    IF a.currency # b.currency
    THEN Raise("ValueError", None)
    ELSE MoneyInit((a.amount + b.amount) * 10, a.currency)

MoneySubtract(a, b) ==
    IF a.currency # b.currency
    THEN Raise("ValueError", None)
    ELSE MoneyInit((a.amount - b.amount) * 10, a.currency)

\* Money.multiply by a whole number (a quantity).
MoneyMultiply(a, multiplier) == MoneyInit(a.amount * multiplier * 10, a.currency)

\* A Decimal with more digits than an integer of the model holds: a sign, the
\* digits of the coefficient (most significant first) and the exponent.
Dec(sign, digits, exp) == [sign |-> sign, digits |-> digits, exp |-> exp]

RECURSIVE DigitsOf(_)
DigitsOf(n) == IF n < 10 THEN <<n>> ELSE Append(DigitsOf(n \div 10), n % 10)

RECURSIVE StripZeros(_)
StripZeros(ds) ==
    IF Len(ds) > 1 /\ ds[1] = 0 THEN StripZeros(Tail(ds)) ELSE ds

RECURSIVE DigitsValue(_)
DigitsValue(ds) ==
    IF ds = <<>> THEN 0 ELSE DigitsValue(SubSeq(ds, 1, Len(ds) - 1)) * 10 + ds[Len(ds)]

\* The digits of ds * k + carry, for a small k.
RECURSIVE MulDigits(_, _, _)
MulDigits(ds, k, carry) ==
    IF ds = <<>>
    THEN IF carry = 0 THEN <<>> ELSE DigitsOf(carry)
    ELSE LET p == ds[Len(ds)] * k + carry IN
         Append(MulDigits(SubSeq(ds, 1, Len(ds) - 1), k, p \div 10), p % 10)

\* The exact product of an amount in cents and a Decimal, in units.
ExactProduct(cents, m) ==
    Dec(IF cents < 0 THEN -m.sign ELSE m.sign,
        StripZeros(MulDigits(m.digits, IF cents < 0 THEN -cents ELSE cents, 0)),
        m.exp - 2)

\* What the arithmetic context does to the result of an operation: a
\* coefficient longer than the precision is rounded to it, ROUND_HALF_EVEN.
ContextRound(x) ==
    IF Len(x.digits) <= DecimalPrec
    THEN x
    ELSE LET keep == SubSeq(x.digits, 1, DecimalPrec)
             rest == SubSeq(x.digits, DecimalPrec + 1, Len(x.digits))
             first == rest[1]
             more == \E i \in 2..Len(rest) : rest[i] # 0
             up == \/ first > 5
                   \/ first = 5 /\ (more \/ keep[DecimalPrec] % 2 = 1)
         IN Dec(x.sign, IF up THEN MulDigits(keep, 1, 1) ELSE keep, x.exp + Len(rest))

RECURSIVE Pow10(_)
Pow10(n) == IF n = 0 THEN 1 ELSE 10 * Pow10(n - 1)

\* Decimal.quantize(Decimal("0.01"), rounding=ROUND_HALF_UP) of a Decimal:
\* the result in cents.
QuantizeDecimal(x) ==
    LET drop == -(x.exp + 2)
        len == Len(x.digits)
    IN
    IF drop <= 0
    THEN x.sign * DigitsValue(x.digits) * Pow10(-drop)
    ELSE IF drop > len
    THEN 0
    ELSE x.sign * (DigitsValue(SubSeq(x.digits, 1, len - drop))
                   + IF x.digits[len - drop + 1] >= 5 THEN 1 ELSE 0)

\* Money.multiply by Decimal(str(multiplier)): the product is rounded by the
\* context, then Money(...) rounds it to cents.
MoneyMultiplyDecimal(a, multiplier) ==
    Ok([amount |-> QuantizeDecimal(ContextRound(ExactProduct(a.amount, multiplier))),
        currency |-> a.currency])

\* Money.divide by Decimal(str(divisor)), the divisor in tenths. The context
\* rounds the quotient to DecimalPrec digits first; a quotient of amounts and
\* divisors of a few digits is either on a tie or much farther from it than
\* that, so the rounding to cents is that of the exact quotient.
MoneyDivide(a, tenths) ==
    IF tenths = 0
    THEN Raise("ValueError", None)
    ELSE IF tenths > 0
    THEN MoneyOf(a.amount * 10, tenths, a.currency)
    ELSE MoneyOf(-a.amount * 10, -tenths, a.currency)

\* Money.negate
MoneyNegate(a) == MoneyInit(-a.amount * 10, a.currency)

MoneyAbs(a) ==
    MoneyInit((IF a.amount < 0 THEN -a.amount ELSE a.amount) * 10, a.currency)

IsPositive(a) == a.amount > 0
IsNegative(a) == a.amount < 0
IsZero(a) == a.amount = 0

MoneyEq(a, b) == a.amount = b.amount /\ a.currency = b.currency

\* Money.__lt__ and __gt__ raise on a currency mismatch; __le__ and __ge__ try
\* equality first, so they raise only when the operands differ.
MoneyLt(a, b) ==
    IF a.currency # b.currency
    THEN Raise("ValueError", FALSE)
    ELSE Ok(a.amount < b.amount)

MoneyGt(a, b) ==
    IF a.currency # b.currency
    THEN Raise("ValueError", FALSE)
    ELSE Ok(a.amount > b.amount)

\* Money.is_greater_than and Money.is_less_than
MoneyIsGreaterThan(a, b) ==
    IF a.currency # b.currency
    THEN Raise("ValueError", FALSE)
    ELSE Ok(a.amount > b.amount)

MoneyIsLessThan(a, b) ==
    IF a.currency # b.currency
    THEN Raise("ValueError", FALSE)
    ELSE Ok(a.amount < b.amount)

MoneyLe_AmountFirst(a, b) == IF a.amount = b.amount THEN Ok(TRUE) ELSE MoneyLt(a, b)

MoneyLe(a, b) == IF MoneyEq(a, b) THEN Ok(TRUE) ELSE MoneyLt(a, b)
MoneyGe(a, b) == IF MoneyEq(a, b) THEN Ok(TRUE) ELSE MoneyGt(a, b)

----------------------------------------------------------------------------
(* BaseEntity *)

\* BaseEntity.mark_as_updated
MarkAsUpdated(e, now) == [e EXCEPT !.updated_at = now]

\* BaseEntity.is_deleted
IsDeleted(e) == e.deleted_at # None

----------------------------------------------------------------------------
(* ClientBalance *)

\* ClientBalance.__post_init__
BalanceInit(current_balance, credit_limit) ==
    IF current_balance.currency # credit_limit.currency
    THEN Raise("ValueError", None)
    ELSE IF IsNegative(credit_limit)
    THEN Raise("ValueError", None)
    ELSE Ok([current_balance |-> current_balance, credit_limit |-> credit_limit])

AvailableCredit_IgnoresDebt(b) == Ok(b.credit_limit)

\* ClientBalance.create: a missing credit_limit is zero in the currency of the
\* balance.
BalanceCreate(current_balance, credit_limit) ==
    BalanceInit(current_balance,
                IF credit_limit = None
                THEN MoneyZero(current_balance.currency).val
                ELSE Val(credit_limit))

\* ClientBalance.available_credit
AvailableCredit(b) ==
    IF IsNegative(b.current_balance)
    THEN MoneyAdd(b.credit_limit, b.current_balance)
    ELSE Ok(b.credit_limit)

\* ClientBalance.total_debt
TotalDebt(b) ==
    IF IsNegative(b.current_balance)
    THEN MoneyAbs(b.current_balance)
    ELSE MoneyZero(b.current_balance.currency)

\* ClientBalance.is_in_debt
IsInDebt(b) == IsNegative(b.current_balance)

\* ClientBalance.is_credit_exceeded
IsCreditExceeded(b) ==
    IF ~IsNegative(b.current_balance)
    THEN FALSE
    ELSE MoneyGt(MoneyAbs(b.current_balance).val, b.credit_limit).val

CanPurchase_DebtOnly(b, amount) ==
    IF amount.currency # b.current_balance.currency
    THEN Raise("ValueError", FALSE)
    ELSE LET projected_balance == MoneySubtract(b.current_balance, amount).val IN
         IF IsPositive(projected_balance) \/ IsZero(projected_balance)
         THEN Ok(TRUE)
         ELSE MoneyLe(amount, b.credit_limit)

\* ClientBalance.can_purchase
CanPurchase(b, amount) ==
    IF amount.currency # b.current_balance.currency
    THEN Raise("ValueError", FALSE)
    ELSE LET projected_balance == MoneySubtract(b.current_balance, amount).val IN
         IF IsPositive(projected_balance) \/ IsZero(projected_balance)
         THEN Ok(TRUE)
         ELSE MoneyLe(MoneyAbs(projected_balance).val, b.credit_limit)

BalanceApplyPayment_Subtracts(b, amount) ==
    LET new_balance == MoneySubtract(b.current_balance, amount) IN
    IF new_balance.err # "none"
    THEN Raise(new_balance.err, b)
    ELSE BalanceInit(new_balance.val, b.credit_limit)

BalanceApplyCharge_ChecksLimit(b, amount) ==
    LET new_balance == MoneySubtract(b.current_balance, amount) IN
    IF new_balance.err # "none"
    THEN Raise(new_balance.err, b)
    ELSE IF -new_balance.val.amount > b.credit_limit.amount
    THEN Raise("CreditLimitExceededError", b)
    ELSE BalanceInit(new_balance.val, b.credit_limit)

\* ClientBalance.apply_charge
BalanceApplyCharge(b, amount) ==
    LET new_balance == MoneySubtract(b.current_balance, amount) IN
    IF new_balance.err # "none"
    THEN Raise(new_balance.err, b)
    ELSE BalanceInit(new_balance.val, b.credit_limit)

\* ClientBalance.apply_payment
BalanceApplyPayment(b, amount) ==
    LET new_balance == MoneyAdd(b.current_balance, amount) IN
    IF new_balance.err # "none"
    THEN Raise(new_balance.err, b)
    ELSE BalanceInit(new_balance.val, b.credit_limit)

\* ClientBalance.update_credit_limit
BalanceUpdateCreditLimit(b, new_limit) ==
    LET r == BalanceInit(b.current_balance, new_limit) IN
    IF r.err # "none" THEN Raise(r.err, b) ELSE r

----------------------------------------------------------------------------
(* Client *)

ClientStatuses == {"active", "inactive", "blocked", "suspended"}

\* Client.validate
ClientValidate(c) ==
    IF c.status \notin ClientStatuses
    THEN Raise("ValidationError", c)
    ELSE IF c.pharmacy_id = None
    THEN Raise("ValidationError", c)
    ELSE Ok(c)

\* Client(...): the fields the ledger, the status rules and the tenant scope
\* read, then __post_init__.
NewClient(id, pharmacy_id, balance, status, now) ==
    ClientValidate(
        [id |-> id,
         pharmacy_id |-> pharmacy_id,
         balance |-> balance,
         status |-> status,
         tags |-> <<>>,
         created_at |-> now,
         updated_at |-> now,
         deleted_at |-> None])

\* Client.can_make_purchase
CanMakePurchase(c, amount) ==
    IF c.status # "active" THEN Ok(FALSE) ELSE CanPurchase(c.balance, amount)

ClientApplyCharge_StrictLimit(c, amount, now) ==
    IF c.status # "active"
    THEN Raise("ValidationError", c)
    ELSE LET can == CanMakePurchase(c, amount) IN
         IF can.err # "none"
         THEN Raise(can.err, c)
         ELSE IF ~can.val
                 \/ c.balance.current_balance.amount - amount.amount
                        = -c.balance.credit_limit.amount
         THEN Raise("CreditLimitExceededError", c)
         ELSE LET b == BalanceApplyCharge(c.balance, amount) IN
              IF b.err # "none"
              THEN Raise(b.err, c)
              ELSE Ok(MarkAsUpdated([c EXCEPT !.balance = b.val], now))

\* Client.apply_charge
ClientApplyCharge(c, amount, now) ==
    IF c.status # "active"
    THEN Raise("ValidationError", c)
    ELSE LET can == CanMakePurchase(c, amount) IN
         IF can.err # "none"
         THEN Raise(can.err, c)
         ELSE IF ~can.val
         THEN Raise("CreditLimitExceededError", c)
         ELSE LET b == BalanceApplyCharge(c.balance, amount) IN
              IF b.err # "none"
              THEN Raise(b.err, c)
              ELSE Ok(MarkAsUpdated([c EXCEPT !.balance = b.val], now))

ClientApplyPayment_ActiveOnly(c, amount, now) ==
    IF c.status # "active"
    THEN Raise("ValidationError", c)
    ELSE LET b == BalanceApplyPayment(c.balance, amount) IN
         IF b.err # "none"
         THEN Raise(b.err, c)
         ELSE Ok(MarkAsUpdated([c EXCEPT !.balance = b.val], now))

\* Client.apply_payment
ClientApplyPayment(c, amount, now) ==
    LET b == BalanceApplyPayment(c.balance, amount) IN
    IF b.err # "none"
    THEN Raise(b.err, c)
    ELSE Ok(MarkAsUpdated([c EXCEPT !.balance = b.val], now))

\* Client.update_credit_limit
ClientUpdateCreditLimit(c, new_limit, now) ==
    IF IsNegative(new_limit)
    THEN Raise("ValidationError", c)
    ELSE LET b == BalanceUpdateCreditLimit(c.balance, new_limit) IN
         IF b.err # "none"
         THEN Raise(b.err, c)
         ELSE Ok(MarkAsUpdated([c EXCEPT !.balance = b.val], now))

ClientSetStatus_AlwaysTouches(c, target, now) ==
    Ok(MarkAsUpdated([c EXCEPT !.status = target], now))

\* Client.activate, deactivate, block and suspend: each returns at once when
\* the client is already in its target status.
ClientSetStatus(c, target, now) ==
    IF c.status = target
    THEN Ok(c)
    ELSE Ok(MarkAsUpdated([c EXCEPT !.status = target], now))

----------------------------------------------------------------------------
(* Transaction *)

TransactionTypes == {"invoice", "payment", "credit_note", "debit_note"}
PaymentStatuses == {"pending", "completed", "failed", "cancelled", "refunded"}

EmptyMetadata ==
    [failure_reason |-> None, cancellation_reason |-> None, refund_reason |-> None]

\* TransactionItem(...), then __post_init__: the total may differ from
\* quantity * unit_price by one cent at most.
NewTransactionItem(name, quantity, unit_price, total) ==
    LET item == [name |-> name, quantity |-> quantity,
                 unit_price |-> unit_price, total |-> total]
        expected_total == MoneyMultiply(unit_price, quantity).val
        difference == MoneySubtract(total, expected_total)
    IN
    IF quantity <= 0
    THEN Raise("ValidationError", None)
    ELSE IF IsNegative(unit_price)
    THEN Raise("ValidationError", None)
    ELSE IF difference.err # "none"
    THEN Raise(difference.err, None)
    ELSE IF MoneyAbs(difference.val).val.amount > 1
    THEN Raise("ValidationError", None)
    ELSE Ok(item)

\* Transaction.validate
TransactionValidate(t) ==
    IF t.transaction_type \notin TransactionTypes
    THEN Raise("ValidationError", t)
    ELSE IF t.payment_status \notin PaymentStatuses
    THEN Raise("ValidationError", t)
    ELSE IF IsNegative(t.total_amount) /\ t.transaction_type \in {"invoice", "debit_note"}
    THEN Raise("ValidationError", t)
    ELSE IF t.amount # None /\ Val(t.amount).currency # t.total_amount.currency
    THEN Raise("ValidationError", t)
    ELSE Ok(t)

\* Transaction(...) as the create-transaction use case constructs it: the
\* dataclass defaults for every field it does not pass, then __post_init__.
NewTransaction(id, pharmacy_id, client_id, number, type, amount, tax, discount, total, payment_method, now) ==
    TransactionValidate(
        [id |-> id,
         pharmacy_id |-> pharmacy_id,
         client_id |-> client_id,
         transaction_number |-> number,
         transaction_type |-> type,
         amount |-> amount,
         tax_amount |-> tax,
         discount_amount |-> discount,
         total_amount |-> total,
         payment_method |-> payment_method,
         payment_status |-> "pending",
         mercadopago_payment_id |-> None,
         mercadopago_payment_link |-> None,
         mercadopago_preference_id |-> None,
         items |-> <<>>,
         invoice_pdf_path |-> None,
         invoice_sent_at |-> None,
         paid_at |-> None,
         cancelled_at |-> None,
         cancelled_by |-> None,
         extra_metadata |-> EmptyMetadata,
         created_at |-> now,
         updated_at |-> now,
         deleted_at |-> None])

IsPaid(t) == t.payment_status = "completed"
IsPending(t) == t.payment_status = "pending"
IsCancelled(t) == t.payment_status = "cancelled"

\* Variants of the lifecycle methods with one guard dropped or widened.
MarkAsPaid_NoPaidGuard(t, payment_method, paid_at, now) ==
    IF IsCancelled(t)
    THEN Raise("InvalidStateTransitionError", t)
    ELSE Ok(MarkAsUpdated(
            [t EXCEPT !.payment_status = "completed",
                      !.payment_method = Some(payment_method),
                      !.paid_at = IF paid_at # None THEN paid_at ELSE Some(now)],
            now))

MarkAsFailed_NoGuard(t, reason, now) ==
    Ok(MarkAsUpdated(
        [t EXCEPT !.payment_status = "failed",
                  !.extra_metadata.failure_reason =
                      IF Truthy(reason) THEN reason ELSE @],
        now))

Refund_PendingToo(t, reason, now) ==
    IF ~(IsPaid(t) \/ IsPending(t))
    THEN Raise("InvalidStateTransitionError", t)
    ELSE Ok(MarkAsUpdated(
            [t EXCEPT !.payment_status = "refunded",
                      !.extra_metadata.refund_reason =
                          IF Truthy(reason) THEN reason ELSE @],
            now))

Cancel_CompletedOnly(t, cancelled_by, reason, now) ==
    IF t.payment_status \in {"completed"}
    THEN Raise("InvalidStateTransitionError", t)
    ELSE Ok(MarkAsUpdated(
            [t EXCEPT !.payment_status = "cancelled",
                      !.cancelled_at = Some(now),
                      !.cancelled_by = Some(cancelled_by),
                      !.extra_metadata.cancellation_reason =
                          IF Truthy(reason) THEN reason ELSE @],
            now))

MarkAsFailed_PaidGuard(t, reason, now) ==
    IF IsCancelled(t) \/ IsPaid(t)
    THEN Raise("InvalidStateTransitionError", t)
    ELSE Ok(MarkAsUpdated(
            [t EXCEPT !.payment_status = "failed",
                      !.extra_metadata.failure_reason =
                          IF Truthy(reason) THEN reason ELSE @],
            now))

\* Transaction.mark_as_paid
MarkAsPaid(t, payment_method, paid_at, now) ==
    IF IsPaid(t)
    THEN Raise("InvalidStateTransitionError", t)
    ELSE IF IsCancelled(t)
    THEN Raise("InvalidStateTransitionError", t)
    ELSE Ok(MarkAsUpdated(
            [t EXCEPT !.payment_status = "completed",
                      !.payment_method = Some(payment_method),
                      !.paid_at = IF paid_at # None THEN paid_at ELSE Some(now)],
            now))

\* Transaction.mark_as_failed
MarkAsFailed(t, reason, now) ==
    IF IsCancelled(t)
    THEN Raise("InvalidStateTransitionError", t)
    ELSE Ok(MarkAsUpdated(
            [t EXCEPT !.payment_status = "failed",
                      !.extra_metadata.failure_reason =
                          IF Truthy(reason) THEN reason ELSE @],
            now))

Cancel_NoCancelledBy(t, cancelled_by, reason, now) ==
    IF t.payment_status \in {"completed", "refunded"}
    THEN Raise("InvalidStateTransitionError", t)
    ELSE Ok(MarkAsUpdated(
            [t EXCEPT !.payment_status = "cancelled",
                      !.cancelled_at = Some(now),
                      !.extra_metadata.cancellation_reason =
                          IF Truthy(reason) THEN reason ELSE @],
            now))

\* Transaction.cancel
Cancel(t, cancelled_by, reason, now) ==
    IF t.payment_status \in {"completed", "refunded"}
    THEN Raise("InvalidStateTransitionError", t)
    ELSE Ok(MarkAsUpdated(
            [t EXCEPT !.payment_status = "cancelled",
                      !.cancelled_at = Some(now),
                      !.cancelled_by = Some(cancelled_by),
                      !.extra_metadata.cancellation_reason =
                          IF Truthy(reason) THEN reason ELSE @],
            now))

\* Transaction.refund
Refund(t, reason, now) ==
    IF ~IsPaid(t)
    THEN Raise("InvalidStateTransitionError", t)
    ELSE Ok(MarkAsUpdated(
            [t EXCEPT !.payment_status = "refunded",
                      !.extra_metadata.refund_reason =
                          IF Truthy(reason) THEN reason ELSE @],
            now))

\* Variants of add_item: one appends before it checks the currency, one folds
\* the item into the total.
AddItem_AppendsFirst(t, item, now) ==
    IF item.total.currency # t.total_amount.currency
    THEN Raise("ValidationError", [t EXCEPT !.items = Append(@, item)])
    ELSE Ok(MarkAsUpdated([t EXCEPT !.items = Append(@, item)], now))

AddItem_UpdatesTotal(t, item, now) ==
    IF item.total.currency # t.total_amount.currency
    THEN Raise("ValidationError", t)
    ELSE Ok(MarkAsUpdated(
            [t EXCEPT !.items = Append(@, item),
                      !.total_amount = MoneyAdd(@, item.total).val],
            now))

\* Transaction.add_item
AddItem(t, item, now) ==
    IF item.total.currency # t.total_amount.currency
    THEN Raise("ValidationError", t)
    ELSE Ok(MarkAsUpdated([t EXCEPT !.items = Append(@, item)], now))

\* Transaction.set_mercadopago_details: an argument that is None or empty
\* leaves its field as it is.
SetMercadopagoDetails(t, payment_id, payment_link, preference_id, now) ==
    Ok(MarkAsUpdated(
        [t EXCEPT !.mercadopago_payment_id =
                      IF Truthy(payment_id) THEN payment_id ELSE @,
                  !.mercadopago_payment_link =
                      IF Truthy(payment_link) THEN payment_link ELSE @,
                  !.mercadopago_preference_id =
                      IF Truthy(preference_id) THEN preference_id ELSE @],
        now))

\* Transaction.set_invoice_pdf
SetInvoicePdf(t, pdf_path, now) ==
    Ok(MarkAsUpdated([t EXCEPT !.invoice_pdf_path = Some(pdf_path)], now))

\* Transaction.mark_invoice_sent
MarkInvoiceSent(t, sent_at, now) ==
    Ok(MarkAsUpdated(
        [t EXCEPT !.invoice_sent_at = IF sent_at # None THEN sent_at ELSE Some(now)],
        now))

----------------------------------------------------------------------------
(* The lifecycle of one Transaction: any sequence of calls of its           *)
(* payment-status methods, time passing between the calls.                  *)

PaymentMethods == {"cash", "mercadopago"}
PaidAtInputs == {None, Some(0)}
ReasonInputs == {None, Some(""), Some("late")}
Users == {"u1"}
Pharmacies == {"ph1", "ph2"}
ClientIds == {"c1", "c2"}

NoCall ==
    [op |-> "new", payment_method |-> None, paid_at |-> None,
     reason |-> None, cancelled_by |-> None]

\* The transactions the lifecycle starts from: constructed pending, of every
\* type, as CreateTransactionUseCase constructs them.
InitialTransactions ==
    {r.val : r \in {x \in {NewTransaction(1, "ph1", "c1", <<"T", 1>>, type,
                                          Some(Cents(a, "ARS")), Cents(0, "ARS"),
                                          Cents(0, "ARS"), Cents(a, "ARS"), None, 0) :
                            type \in TransactionTypes, a \in {1}} :
                    x.err = "none"}}

TxnInit ==
    /\ txn \in InitialTransactions
    /\ txnCall = NoCall
    /\ txnResult = "none"

TxnIdle ==
    /\ txn = None
    /\ txnCall = NoCall
    /\ txnResult = "none"

TxnMarkAsPaid ==
    \E m \in PaymentMethods, p \in PaidAtInputs, now \in clock..MaxClock :
        LET r == MarkAsPaid(txn, m, p, now) IN
        /\ clock' = now
        /\ txn' = r.val
        /\ txnResult' = r.err
        /\ txnCall' = [NoCall EXCEPT !.op = "mark_as_paid",
                                     !.payment_method = Some(m), !.paid_at = p]
        /\ UNCHANGED notTxnVars

TxnMarkAsFailed ==
    \E reason \in ReasonInputs, now \in clock..MaxClock :
        LET r == MarkAsFailed(txn, reason, now) IN
        /\ clock' = now
        /\ txn' = r.val
        /\ txnResult' = r.err
        /\ txnCall' = [NoCall EXCEPT !.op = "mark_as_failed", !.reason = reason]
        /\ UNCHANGED notTxnVars

TxnCancel ==
    \E u \in Users, reason \in ReasonInputs, now \in clock..MaxClock :
        LET r == Cancel(txn, u, reason, now) IN
        /\ clock' = now
        /\ txn' = r.val
        /\ txnResult' = r.err
        /\ txnCall' = [NoCall EXCEPT !.op = "cancel", !.reason = reason,
                                     !.cancelled_by = Some(u)]
        /\ UNCHANGED notTxnVars

TxnRefund ==
    \E reason \in ReasonInputs, now \in clock..MaxClock :
        LET r == Refund(txn, reason, now) IN
        /\ clock' = now
        /\ txn' = r.val
        /\ txnResult' = r.err
        /\ txnCall' = [NoCall EXCEPT !.op = "refund", !.reason = reason]
        /\ UNCHANGED notTxnVars

\* The line items offered to add_item: one in the currency of the
\* transactions, one in another currency.
ItemInputs ==
    {r.val : r \in {x \in {NewTransactionItem("med", 1, Cents(1, cur), Cents(1, cur)) :
                            cur \in Currencies} :
                    x.err = "none"}}

\* payment id, payment link and preference id of a set_mercadopago_details
\* call: a value, an empty string and None.
GatewayInputs == {<<Some("pay1"), Some(""), None>>}
PdfPaths == {"inv.pdf"}
SentAtInputs == {Some(0)}

TxnAddItem ==
    /\ Len(txn.items) < MaxItems
    /\ \E item \in ItemInputs, now \in clock..MaxClock :
        LET r == AddItem(txn, item, now) IN
        /\ clock' = now
        /\ txn' = r.val
        /\ txnResult' = r.err
        /\ txnCall' = [NoCall EXCEPT !.op = "add_item"]
        /\ UNCHANGED notTxnVars

TxnSetMercadopagoDetails ==
    \E g \in GatewayInputs, now \in clock..MaxClock :
        LET r == SetMercadopagoDetails(txn, g[1], g[2], g[3], now) IN
        /\ clock' = now
        /\ txn' = r.val
        /\ txnResult' = r.err
        /\ txnCall' = [NoCall EXCEPT !.op = "set_mercadopago_details"]
        /\ UNCHANGED notTxnVars

TxnSetInvoicePdf ==
    \E pdf_path \in PdfPaths, now \in clock..MaxClock :
        LET r == SetInvoicePdf(txn, pdf_path, now) IN
        /\ clock' = now
        /\ txn' = r.val
        /\ txnResult' = r.err
        /\ txnCall' = [NoCall EXCEPT !.op = "set_invoice_pdf"]
        /\ UNCHANGED notTxnVars

TxnMarkInvoiceSent ==
    \E sent_at \in SentAtInputs, now \in clock..MaxClock :
        LET r == MarkInvoiceSent(txn, sent_at, now) IN
        /\ clock' = now
        /\ txn' = r.val
        /\ txnResult' = r.err
        /\ txnCall' = [NoCall EXCEPT !.op = "mark_invoice_sent"]
        /\ UNCHANGED notTxnVars

----------------------------------------------------------------------------
(* The ledger: any sequence of apply_charge / apply_payment calls on one    *)
(* ClientBalance.                                                           *)

AmountValues == {-1, 1, 2}
AmountInputs == {Cents(a, cur) : a \in AmountValues, cur \in Currencies}

\* The balances a sequence starts from: every ClientBalance the constructor
\* accepts over a few balances (debt beyond the limit included) and limits.
InitialBalances ==
    {r.val : r \in {x \in {BalanceInit(Cents(b, "ARS"), Cents(l, "ARS")) :
                            b \in {-2, 0, 1}, l \in {0, 2}} :
                    x.err = "none"}}

NoQuery == [op |-> "none", amount |-> None, err |-> "none", val |-> None]

LedgerInit ==
    /\ ledger \in InitialBalances
    /\ ledgerInit = ledger
    /\ ledgerOps = <<>>
    /\ ledgerResult = "none"
    /\ ledgerQuery = NoQuery

LedgerIdle ==
    /\ ledger = None
    /\ ledgerInit = None
    /\ ledgerOps = <<>>
    /\ ledgerResult = "none"
    /\ ledgerQuery = NoQuery

LedgerApplyCharge ==
    /\ Len(ledgerOps) < MaxOps
    /\ \E amount \in AmountInputs :
        LET r == BalanceApplyCharge(ledger, amount) IN
        /\ ledger' = r.val
        /\ ledgerResult' = r.err
        /\ ledgerOps' = Append(ledgerOps, [op |-> "apply_charge", amount |-> amount])
        /\ UNCHANGED <<ledgerInit, ledgerQuery, clock, notLedgerVars>>

LedgerApplyPayment ==
    /\ Len(ledgerOps) < MaxOps
    /\ \E amount \in AmountInputs :
        LET r == BalanceApplyPayment(ledger, amount) IN
        /\ ledger' = r.val
        /\ ledgerResult' = r.err
        /\ ledgerOps' = Append(ledgerOps, [op |-> "apply_payment", amount |-> amount])
        /\ UNCHANGED <<ledgerInit, ledgerQuery, clock, notLedgerVars>>

----------------------------------------------------------------------------
(* The read-only calls on a ClientBalance, over a range of balances.        *)

\* Every ClientBalance the constructor accepts with a balance of -0.03 to 0.03
\* and a limit of 0 to 0.02: in credit, in debt within the limit, at the limit
\* and beyond it.
QueryBalances ==
    {r.val : r \in {x \in {BalanceInit(Cents(b, "ARS"), Cents(l, "ARS")) :
                            b \in -3..3, l \in 0..2} :
                    x.err = "none"}}

BalanceQueryInit ==
    /\ ledger \in QueryBalances
    /\ ledgerInit = ledger
    /\ ledgerOps = <<>>
    /\ ledgerResult = "none"
    /\ ledgerQuery = NoQuery

LedgerAvailableCredit ==
    LET r == AvailableCredit(ledger) IN
    /\ ledgerQuery' = [op |-> "available_credit", amount |-> None,
                       err |-> r.err, val |-> r.val]
    /\ UNCHANGED <<ledger, ledgerInit, ledgerOps, ledgerResult, clock, notLedgerVars>>

LedgerCanPurchase ==
    \E amount \in AmountInputs :
        LET r == CanPurchase(ledger, amount) IN
        /\ ledgerQuery' = [op |-> "can_purchase", amount |-> Some(amount),
                           err |-> r.err, val |-> r.val]
        /\ UNCHANGED <<ledger, ledgerInit, ledgerOps, ledgerResult, clock, notLedgerVars>>

----------------------------------------------------------------------------
(* One Client: any sequence of calls of its ledger and status methods.      *)

NoClientCall == [op |-> "new", amount |-> None]

\* The clients a sequence starts from: in every status, over InitialBalances,
\* as constructed or as loaded from a row that carries the deleted_at tombstone.
InitialClients ==
    {[r.val EXCEPT !.deleted_at = d] :
        r \in {x \in {NewClient("c1", Some("ph1"), b, st, 0) :
                        b \in InitialBalances, st \in ClientStatuses} :
                x.err = "none"},
        d \in {None, Some(0)}}

ClientInit ==
    /\ client \in InitialClients
    /\ clientCall = NoClientCall
    /\ clientResult = "none"

ClientIdle ==
    /\ client = None
    /\ clientCall = NoClientCall
    /\ clientResult = "none"

\* The model drives a client's balance no further than MaxBalance from zero.
WithinBalanceBound(r) ==
    r.err = "none" =>
        /\ r.val.balance.current_balance.amount <= MaxBalance
        /\ r.val.balance.current_balance.amount >= -MaxBalance

CliApplyCharge ==
    \E amount \in AmountInputs, now \in clock..MaxClock :
        LET r == ClientApplyCharge(client, amount, now) IN
        /\ WithinBalanceBound(r)
        /\ clock' = now
        /\ client' = r.val
        /\ clientResult' = r.err
        /\ clientCall' = [op |-> "apply_charge", amount |-> Some(amount)]
        /\ UNCHANGED notClientVars

CliApplyPayment ==
    \E amount \in AmountInputs, now \in clock..MaxClock :
        LET r == ClientApplyPayment(client, amount, now) IN
        /\ WithinBalanceBound(r)
        /\ clock' = now
        /\ client' = r.val
        /\ clientResult' = r.err
        /\ clientCall' = [op |-> "apply_payment", amount |-> Some(amount)]
        /\ UNCHANGED notClientVars

CliUpdateCreditLimit ==
    \E new_limit \in AmountInputs, now \in clock..MaxClock :
        LET r == ClientUpdateCreditLimit(client, new_limit, now) IN
        /\ clock' = now
        /\ client' = r.val
        /\ clientResult' = r.err
        /\ clientCall' = [op |-> "update_credit_limit", amount |-> Some(new_limit)]
        /\ UNCHANGED notClientVars

CliSetStatus(op, target) ==
    \E now \in clock..MaxClock :
        LET r == ClientSetStatus(client, target, now) IN
        /\ clock' = now
        /\ client' = r.val
        /\ clientResult' = r.err
        /\ clientCall' = [op |-> op, amount |-> None]
        /\ UNCHANGED notClientVars

CliActivate == CliSetStatus("activate", "active")
CliDeactivate == CliSetStatus("deactivate", "inactive")
CliBlock == CliSetStatus("block", "blocked")
CliSuspend == CliSetStatus("suspend", "suspended")

----------------------------------------------------------------------------
(* ClientValidator *)

ValidateForTransaction_LimitKind(c, amount) ==
    IF c.status # "active"
    THEN Raise("ValidationError", c)
    ELSE IF IsDeleted(c)
    THEN Raise("ValidationError", c)
    ELSE LET can == CanMakePurchase(c, amount) IN
         IF can.err # "none"
         THEN Raise(can.err, c)
         ELSE IF ~can.val
         THEN Raise("CreditLimitExceededError", c)
         ELSE Ok(c)

\* ClientValidator.validate_for_transaction
ValidateForTransaction(c, amount) ==
    IF c.status # "active"
    THEN Raise("ValidationError", c)
    ELSE IF IsDeleted(c)
    THEN Raise("ValidationError", c)
    ELSE LET can == CanMakePurchase(c, amount) IN
         IF can.err # "none"
         THEN Raise(can.err, c)
         ELSE IF ~can.val
         THEN Raise("BusinessRuleViolation", c)
         ELSE Ok(c)

ValidateForCreditIncrease_AnyDebt(c, new_limit) ==
    IF IsNegative(new_limit)
    THEN Raise("ValidationError", c)
    ELSE IF new_limit.currency # c.balance.credit_limit.currency
    THEN Raise("ValidationError", c)
    ELSE IF c.status # "active"
    THEN Raise("BusinessRuleViolation", c)
    ELSE Ok(c)

ValidateForCreditIncrease_AnyStatus(c, new_limit) ==
    IF IsNegative(new_limit)
    THEN Raise("ValidationError", c)
    ELSE IF new_limit.currency # c.balance.credit_limit.currency
    THEN Raise("ValidationError", c)
    ELSE IF MoneyLt(new_limit, c.balance.credit_limit).val /\ IsInDebt(c.balance)
    THEN Raise("BusinessRuleViolation", c)
    ELSE Ok(c)

\* ClientValidator.validate_for_credit_increase
ValidateForCreditIncrease(c, new_limit) ==
    IF IsNegative(new_limit)
    THEN Raise("ValidationError", c)
    ELSE IF new_limit.currency # c.balance.credit_limit.currency
    THEN Raise("ValidationError", c)
    ELSE IF MoneyLt(new_limit, c.balance.credit_limit).val /\ IsInDebt(c.balance)
    THEN Raise("BusinessRuleViolation", c)
    ELSE IF c.status # "active"
    THEN Raise("BusinessRuleViolation", c)
    ELSE Ok(c)

\* validator.validate_for_transaction(client, amount) on the client held.
CliValidateForTransaction ==
    \E amount \in AmountInputs :
        LET r == ValidateForTransaction(client, amount) IN
        /\ client' = r.val
        /\ clientResult' = r.err
        /\ clientCall' = [op |-> "validate_for_transaction", amount |-> Some(amount)]
        /\ UNCHANGED <<clock, notClientVars>>

\* validator.validate_for_credit_increase(client, new_limit) on the client held.
CliValidateForCreditIncrease ==
    \E new_limit \in AmountInputs \cup {Cents(0, "ARS")} :
        LET r == ValidateForCreditIncrease(client, new_limit) IN
        /\ client' = r.val
        /\ clientResult' = r.err
        /\ clientCall' = [op |-> "validate_for_credit_increase", amount |-> Some(new_limit)]
        /\ UNCHANGED <<clock, notClientVars>>

----------------------------------------------------------------------------
(* Repositories *)

\* ClientMapper.to_entity: the balance is rebuilt in ARS from the two stored
\* amounts, identity and timestamps are copied from the row.
ClientToEntity(row) ==
    LET credit_limit == MoneyCreate(row.credit_limit * 10, "ARS").val
        current_balance == MoneyCreate(row.current_balance * 10, "ARS").val
        balance == BalanceInit(current_balance, credit_limit).val
        c == NewClient(row.id, row.pharmacy_id, balance, row.status, row.created_at).val
    IN [c EXCEPT !.tags = row.tags,
                 !.updated_at = row.updated_at,
                 !.deleted_at = row.deleted_at]

\* ClientMapper.update_model_from_entity
UpdateModelFromEntity(row, e) ==
    [row EXCEPT !.pharmacy_id = e.pharmacy_id,
                !.credit_limit = e.balance.credit_limit.amount,
                !.current_balance = e.balance.current_balance.amount,
                !.status = e.status,
                !.updated_at = e.updated_at,
                !.deleted_at = e.deleted_at,
                !.tags = e.tags]

\* The table's chk_client_status constraint
ChkClientStatus(row) == row.status \in {"active", "inactive", "blocked"}

\* ClientRepository.find_by_id
ClientFindById(rows, id) ==
    IF id \in DOMAIN rows THEN Some(ClientToEntity(rows[id])) ELSE None

\* ClientRepository.update: the row is selected by id and overwritten from the
\* entity; nothing compares it with what the caller had read.
ClientUpdate(rows, id, e) ==
    IF id \in DOMAIN rows
    THEN [rows EXCEPT ![id] = UpdateModelFromEntity(@, e)]
    ELSE rows

\* ClientRepository.delete: the row found by id gets the deleted_at tombstone;
\* no other column is written.
ClientDelete(rows, id, now) ==
    IF id \in DOMAIN rows
    THEN [rows EXCEPT ![id].deleted_at = Some(now)]
    ELSE rows

\* ITransactionRepository.create
TransactionCreate(store, t) == Append(store, t)

\* ITransactionRepository.find_by_id
TransactionFindById(store, id) ==
    IF id \in 1..Len(store) THEN Some(store[id]) ELSE None

\* ITransactionRepository.update
TransactionUpdate(store, id, t) ==
    IF id \in 1..Len(store) THEN [store EXCEPT ![id] = t] ELSE store

\* TransactionNumberGenerator.generate, its three parts kept apart.
TransactionNumber(type, sequence, date) ==
    LET prefix == CASE type = "invoice" -> "INV"
                    [] type = "payment" -> "PAY"
                    [] type = "credit_note" -> "CN"
                    [] type = "debit_note" -> "DN"
    IN <<prefix, date, sequence>>

----------------------------------------------------------------------------
(* CreateTransactionUseCase.execute and ProcessPaymentUseCase.execute, run  *)
(* by concurrent requests.  Each action is the code between two awaits      *)
(* together with the repository call the second await makes.                *)

Procs == {"p1", "p2"}
Today == 0

NoCommand ==
    [kind |-> "none", pharmacy_id |-> None, client_id |-> None,
     transaction_type |-> None, amount |-> 0, currency |-> None,
     tax_amount |-> 0, discount_amount |-> 0, payment_method |-> None,
     transaction_id |-> 0, paid_at |-> None]

\* Amount, discount and currency of the commands, in cents: totals of 1 and 2
\* in the clients' currency, a negative total, and a total in another currency.
CommandAmounts ==
    {<<1, 0, "ARS">>, <<2, 0, "ARS">>, <<1, 3, "ARS">>, <<1, 0, "USD">>}

CreateCommands ==
    {[NoCommand EXCEPT !.kind = "create",
                       !.pharmacy_id = Some(ph),
                       !.client_id = Some(c),
                       !.transaction_type = Some(ty),
                       !.amount = a[1] * 10,
                       !.discount_amount = a[2] * 10,
                       !.currency = Some(a[3])] :
        ph \in Pharmacies, c \in ClientIds \cup {"c0"},
        ty \in TransactionTypes, a \in CommandAmounts}

PaymentCommands ==
    {[NoCommand EXCEPT !.kind = "pay",
                       !.transaction_id = id,
                       !.payment_method = Some("cash"),
                       !.paid_at = at] :
        id \in 1..3, at \in {None}}

IdleProc == [pc |-> "idle", cmd |-> NoCommand, client |-> None, txn |-> None,
             total |-> None, sequence |-> 0, err |-> "none"]

\* The clients table before any request: one client per pharmacy.
InitialRows ==
    [c \in ClientIds |->
        [id |-> c,
         pharmacy_id |-> Some(IF c = "c1" THEN "ph1" ELSE "ph2"),
         credit_limit |-> 2,
         current_balance |-> 0,
         status |-> IF c = "c1" THEN "active" ELSE "blocked",
         tags |-> <<>>,
         created_at |-> 0,
         updated_at |-> 0,
         deleted_at |-> None]]

\* No value-object call has been made.
NoValueCall == [op |-> "none", args |-> <<>>, err |-> "none", val |-> None]

UcInit ==
    /\ valueCall = NoValueCall
    /\ clientRows = InitialRows
    /\ txnRows = <<>>
    /\ nextSeq = [k \in Pharmacies \X TransactionTypes |-> 1]
    /\ procs = [p \in Procs |-> IdleProc]
    /\ appliedCount = [id \in 1..Cardinality(Procs) |-> 0]
    /\ appliedSum = [c \in ClientIds |-> 0]

UcIdle ==
    /\ valueCall = NoValueCall
    /\ clientRows = <<>>
    /\ txnRows = <<>>
    /\ nextSeq = <<>>
    /\ procs = <<>>
    /\ appliedCount = <<>>
    /\ appliedSum = <<>>

Finish(p, err) ==
    procs' = [procs EXCEPT ![p].pc = "done", ![p].err = err]

\* create: client = await client_repository.find_by_id(command.client_id)
CreateFindClient(p) ==
    /\ procs[p].pc = "idle"
    /\ \E cmd \in CreateCommands :
        procs' = [procs EXCEPT ![p].pc = "create_sequence",
                               ![p].cmd = cmd,
                               ![p].client = ClientFindById(clientRows, Val(cmd.client_id))]
    /\ UNCHANGED <<clientRows, txnRows, nextSeq, appliedCount, appliedSum, notUcVars>>

\* create: the client check, the Money values and the total, the validator
\* for invoices and debit notes, then
\* await transaction_repository.get_next_sequence_number(...)
CreateNextSequence(p) ==
    /\ procs[p].pc = "create_sequence"
    /\ LET cmd == procs[p].cmd
           cur == Val(cmd.currency)
           amount == MoneyCreate(cmd.amount, cur)
           tax_amount == MoneyCreate(cmd.tax_amount, cur)
           discount_amount == MoneyCreate(cmd.discount_amount, cur)
           total == MoneySubtract(MoneyAdd(amount.val, tax_amount.val).val,
                                  discount_amount.val)
           checked == IF Val(cmd.transaction_type) \in {"invoice", "debit_note"}
                      THEN ValidateForTransaction(Val(procs[p].client), total.val)
                      ELSE Ok(None)
           key == <<Val(cmd.pharmacy_id), Val(cmd.transaction_type)>>
       IN
       IF procs[p].client = None
       THEN Finish(p, "EntityNotFoundError") /\ UNCHANGED nextSeq
       ELSE IF amount.err # "none"
       THEN Finish(p, amount.err) /\ UNCHANGED nextSeq
       ELSE IF checked.err # "none"
       THEN Finish(p, checked.err) /\ UNCHANGED nextSeq
       ELSE /\ procs' = [procs EXCEPT ![p].pc = "create_persist",
                                      ![p].total = Some(total.val),
                                      ![p].sequence = nextSeq[key]]
            /\ nextSeq' = [nextSeq EXCEPT ![key] = @ + 1]
    /\ UNCHANGED <<clientRows, txnRows, appliedCount, appliedSum, notUcVars>>

\* create: the transaction number, Transaction(...), then
\* saved_transaction = await transaction_repository.create(transaction)
CreatePersist(p) ==
    /\ procs[p].pc = "create_persist"
    /\ LET cmd == procs[p].cmd
           cur == Val(cmd.currency)
           number == TransactionNumber(Val(cmd.transaction_type),
                                       procs[p].sequence, Today)
           t == NewTransaction(Len(txnRows) + 1, Val(cmd.pharmacy_id),
                               Val(cmd.client_id), number,
                               Val(cmd.transaction_type),
                               Some(MoneyCreate(cmd.amount, cur).val),
                               MoneyCreate(cmd.tax_amount, cur).val,
                               MoneyCreate(cmd.discount_amount, cur).val,
                               Val(procs[p].total), cmd.payment_method, clock)
       IN
       IF t.err # "none"
       THEN Finish(p, t.err) /\ UNCHANGED txnRows
       ELSE /\ txnRows' = TransactionCreate(txnRows, t.val)
            /\ procs' = [procs EXCEPT ![p].pc = "create_balance",
                                      ![p].txn = Some(t.val)]
    /\ UNCHANGED <<clientRows, nextSeq, appliedCount, appliedSum, notUcVars>>

\* create: client.apply_charge(total) for an invoice or a debit note,
\* client.apply_payment(total) for a payment or a credit note, then
\* await client_repository.update(client.id, client), and the return.
CreateUpdateBalance(p) ==
    /\ procs[p].pc = "create_balance"
    /\ LET cmd == procs[p].cmd
           c == Val(procs[p].client)
           total == Val(procs[p].total)
           charge == Val(cmd.transaction_type) \in {"invoice", "debit_note"}
           r == IF charge
                THEN ClientApplyCharge(c, total, clock)
                ELSE ClientApplyPayment(c, total, clock)
           id == Val(procs[p].txn).id
       IN
       IF r.err # "none"
       THEN Finish(p, r.err) /\ UNCHANGED <<clientRows, appliedCount, appliedSum>>
       ELSE /\ clientRows' = ClientUpdate(clientRows, c.id, r.val)
            /\ appliedCount' = [appliedCount EXCEPT ![id] = @ + 1]
            /\ appliedSum' = [appliedSum EXCEPT ![c.id] =
                                 IF charge THEN @ - total.amount ELSE @ + total.amount]
            /\ procs' = [procs EXCEPT ![p].pc = "done", ![p].client = Some(r.val)]
    /\ UNCHANGED <<txnRows, nextSeq, notUcVars>>

\* pay: transaction = await transaction_repository.find_by_id(command.transaction_id)
PayFindTransaction(p) ==
    /\ procs[p].pc = "idle"
    /\ \E cmd \in PaymentCommands :
        procs' = [procs EXCEPT ![p].pc = "pay_client",
                               ![p].cmd = cmd,
                               ![p].txn = TransactionFindById(txnRows, cmd.transaction_id)]
    /\ UNCHANGED <<clientRows, txnRows, nextSeq, appliedCount, appliedSum, notUcVars>>

\* pay: the transaction checks, then
\* client = await client_repository.find_by_id(transaction.client_id)
PayFindClient(p) ==
    /\ procs[p].pc = "pay_client"
    /\ IF procs[p].txn = None
       THEN Finish(p, "EntityNotFoundError")
       ELSE IF IsPaid(Val(procs[p].txn))
       THEN Finish(p, "BusinessRuleViolation")
       ELSE IF IsCancelled(Val(procs[p].txn))
       THEN Finish(p, "BusinessRuleViolation")
       ELSE procs' = [procs EXCEPT ![p].pc = "pay_transaction",
                                   ![p].client =
                                       ClientFindById(clientRows, Val(procs[p].txn).client_id)]
    /\ UNCHANGED <<clientRows, txnRows, nextSeq, appliedCount, appliedSum, notUcVars>>

\* pay: the client check, transaction.mark_as_paid(...), then
\* await transaction_repository.update(transaction.id, transaction); an
\* invoice or a debit note returns after it.
PayUpdateTransaction(p) ==
    /\ procs[p].pc = "pay_transaction"
    /\ LET cmd == procs[p].cmd
           t == Val(procs[p].txn)
           paid_at == IF cmd.paid_at # None THEN cmd.paid_at ELSE Some(clock)
           r == MarkAsPaid(t, Val(cmd.payment_method), paid_at, clock)
       IN
       IF procs[p].client = None
       THEN Finish(p, "EntityNotFoundError") /\ UNCHANGED txnRows
       ELSE IF r.err # "none"
       THEN Finish(p, r.err) /\ UNCHANGED txnRows
       ELSE /\ txnRows' = TransactionUpdate(txnRows, t.id, r.val)
            /\ procs' = [procs EXCEPT
                           ![p].pc = IF t.transaction_type \in {"payment", "credit_note"}
                                     THEN "pay_balance" ELSE "done",
                           ![p].txn = Some(r.val)]
    /\ UNCHANGED <<clientRows, nextSeq, appliedCount, appliedSum, notUcVars>>

\* pay, for a payment or a credit note:
\* client.apply_payment(transaction.total_amount), then
\* await client_repository.update(client.id, client), and the return.
PayUpdateBalance(p) ==
    /\ procs[p].pc = "pay_balance"
    /\ LET c == Val(procs[p].client)
           t == Val(procs[p].txn)
           r == ClientApplyPayment(c, t.total_amount, clock)
       IN
       IF r.err # "none"
       THEN Finish(p, r.err) /\ UNCHANGED <<clientRows, appliedCount, appliedSum>>
       ELSE /\ clientRows' = ClientUpdate(clientRows, c.id, r.val)
            /\ appliedCount' = [appliedCount EXCEPT ![t.id] = @ + 1]
            /\ appliedSum' = [appliedSum EXCEPT ![c.id] = @ + t.total_amount.amount]
            /\ procs' = [procs EXCEPT ![p].pc = "done", ![p].client = Some(r.val)]
    /\ UNCHANGED <<txnRows, nextSeq, notUcVars>>

\* A delete request: await client_repository.delete(client_id), of a stored
\* client or of an unknown id.
DeleteClient ==
    /\ \E id \in ClientIds \cup {"c0"} :
        clientRows' = ClientDelete(clientRows, id, clock)
    /\ UNCHANGED <<txnRows, nextSeq, procs, appliedCount, appliedSum, notUcVars>>

----------------------------------------------------------------------------
(* TransactionNumberGenerator: a string is the sequence of its characters. *)

DigitChars == <<"0", "1", "2", "3", "4", "5", "6", "7", "8", "9">>
IsDigit(c) == \E i \in 1..10 : DigitChars[i] = c
DigitOf(c) == (CHOOSE i \in 1..10 : DigitChars[i] = c) - 1

\* str(n)
RECURSIVE NatToStr(_)
NatToStr(n) ==
    IF n < 10 THEN <<DigitChars[n + 1]>>
    ELSE Append(NatToStr(n \div 10), DigitChars[(n % 10) + 1])

IntToStr(n) == IF n < 0 THEN <<"-">> \o NatToStr(-n) ELSE NatToStr(n)

\* str.zfill: zeros are put in after a leading sign.
ZFill(str, width) ==
    LET zeros == [i \in 1..(width - Len(str)) |-> "0"] IN
    IF Len(str) >= width
    THEN str
    ELSE IF str[1] \in {"+", "-"}
    THEN <<str[1]>> \o zeros \o Tail(str)
    ELSE zeros \o str

\* calendar: the days of a month, and the dates datetime.date constructs.
IsLeap(year) == year % 4 = 0 /\ (year % 100 # 0 \/ year % 400 = 0)

DaysInMonth(year, month) ==
    IF month = 2 THEN (IF IsLeap(year) THEN 29 ELSE 28)
    ELSE IF month \in {4, 6, 9, 11} THEN 30
    ELSE 31

\* datetime.date(year, month, day)
DateNew(year, month, day) ==
    IF year \in 1..9999 /\ month \in 1..12 /\ day \in 1..DaysInMonth(year, month)
    THEN Ok([year |-> year, month |-> month, day |-> day])
    ELSE Raise("ValueError", None)

\* date.strftime("%Y%m%d"). The C library writes the year; whether a year
\* below 1000 is padded to 4 digits depends on the platform.
StrfTime(date, padded_year) ==
    (IF padded_year THEN ZFill(NatToStr(date.year), 4) ELSE NatToStr(date.year))
    \o ZFill(NatToStr(date.month), 2) \o ZFill(NatToStr(date.day), 2)

PREFIX_MAP ==
    [invoice |-> <<"I", "N", "V">>, payment |-> <<"P", "A", "Y">>,
     credit_note |-> <<"C", "N">>, debit_note |-> <<"D", "N">>]

\* TransactionNumberGenerator.generate
Generate(transaction_type, sequence, transaction_date, padded_year) ==
    IF transaction_type \notin DOMAIN PREFIX_MAP
    THEN Raise("ValueError", None)
    ELSE LET prefix == PREFIX_MAP[transaction_type]
             date_part == StrfTime(transaction_date, padded_year)
             sequence_part == ZFill(IntToStr(sequence), 4)
         IN Ok(prefix \o <<"-">> \o date_part \o <<"-">> \o sequence_part)

\* str.split("-")
RECURSIVE Split(_)
Split(str) ==
    IF \A i \in 1..Len(str) : str[i] # "-"
    THEN <<str>>
    ELSE LET i == CHOOSE k \in 1..Len(str) :
                      str[k] = "-" /\ \A j \in 1..(k - 1) : str[j] # "-"
         IN <<SubSeq(str, 1, i - 1)>> \o Split(SubSeq(str, i + 1, Len(str)))

\* str[a:b]
Slice(str, a, b) == SubSeq(str, a + 1, IF b < Len(str) THEN b ELSE Len(str))

\* str.strip() of spaces
RECURSIVE Strip(_)
Strip(str) ==
    IF str # <<>> /\ str[1] = " " THEN Strip(Tail(str))
    ELSE IF str # <<>> /\ str[Len(str)] = " " THEN Strip(SubSeq(str, 1, Len(str) - 1))
    ELSE str

RECURSIVE DigitsToNat(_)
DigitsToNat(str) ==
    IF str = <<>> THEN 0
    ELSE IF str[Len(str)] = "_" THEN DigitsToNat(SubSeq(str, 1, Len(str) - 1))
    ELSE DigitsToNat(SubSeq(str, 1, Len(str) - 1)) * 10 + DigitOf(str[Len(str)])

\* int(str): spaces around the literal, a sign, and single underscores
\* between digits are accepted.
PyInt(str) ==
    LET stripped == Strip(str)
        signed == stripped # <<>> /\ stripped[1] \in {"+", "-"}
        body == IF signed THEN Tail(stripped) ELSE stripped
        wellFormed ==
            /\ body # <<>>
            /\ \A i \in 1..Len(body) : IsDigit(body[i]) \/ body[i] = "_"
            /\ \A i \in 1..Len(body) :
                   body[i] = "_" =>
                       /\ i > 1 /\ i < Len(body)
                       /\ IsDigit(body[i - 1]) /\ IsDigit(body[i + 1])
    IN
    IF ~wellFormed THEN Raise("ValueError", 0)
    ELSE Ok(IF signed /\ stripped[1] = "-" THEN -DigitsToNat(body) ELSE DigitsToNat(body))

\* TransactionNumberGenerator.parse
Parse(transaction_number) ==
    LET parts == Split(transaction_number)
        prefix == parts[1]
        date_str == parts[2]
        sequence_str == parts[3]
        year == PyInt(Slice(date_str, 0, 4))
        month == PyInt(Slice(date_str, 4, 6))
        day == PyInt(Slice(date_str, 6, 8))
        sequence == PyInt(sequence_str)
    IN
    IF Len(parts) # 3
    THEN Raise("ValueError", None)
    ELSE IF \A k \in DOMAIN PREFIX_MAP : PREFIX_MAP[k] # prefix
    THEN Raise("ValueError", None)
    ELSE IF year.err # "none" \/ month.err # "none" \/ day.err # "none"
    THEN Raise("ValueError", None)
    ELSE IF DateNew(year.val, month.val, day.val).err # "none"
    THEN Raise("ValueError", None)
    ELSE IF sequence.err # "none"
    THEN Raise("ValueError", None)
    ELSE Ok([transaction_type |-> CHOOSE k \in DOMAIN PREFIX_MAP : PREFIX_MAP[k] = prefix,
             date |-> DateNew(year.val, month.val, day.val).val,
             sequence |-> sequence.val,
             prefix |-> prefix])

----------------------------------------------------------------------------
(* Calls on the value objects and the constructors, one call at a time: the *)
(* call, its arguments and its outcome are recorded in valueCall.           *)

MoneyInputs == {Cents(a, cur) : a \in {-1, 0, 1, 3, 5}, cur \in Currencies}

\* Amounts in thousandths and currency codes handed to Money.create and
\* Money(...).
MillsInputs == {-15, -14, -5, -4, 0, 4, 5, 14, 15, 21}
CurrencyInputs == {"ARS", "usd", "AR", "pesos"}

\* Multipliers: 0.5, 1.5, 0.3, -0.5, 0, 2 and 0.49999999999999999999999999999
\* (29 digits).
MultiplierInputs ==
    {Dec(1, <<5>>, -1), Dec(1, <<1, 5>>, -1), Dec(1, <<3>>, -1), Dec(-1, <<5>>, -1),
     Dec(1, <<0>>, 0), Dec(1, <<2>>, 0),
     Dec(1, <<4>> \o [i \in 1..28 |-> 9], -29)}

\* Divisors in tenths: -0.5, 0, 0.3, 0.5, 1.5 and 2.
DivisorInputs == {-5, 0, 3, 5, 15, 20}

\* The record of a call: the value it returned, or the exception it raised.
ValueCall(op, args, r) ==
    [op |-> op, args |-> args, err |-> r.err,
     val |-> IF r.err = "none" THEN Some(r.val) ELSE None]

ValMoneyNew ==
    \E mills \in MillsInputs, currency \in CurrencyInputs :
        /\ \/ valueCall' = ValueCall("Money", <<mills, currency>>,
                                     MoneyInit(mills, currency))
           \/ valueCall' = ValueCall("create", <<mills, currency>>,
                                     MoneyCreate(mills, currency))
        /\ UNCHANGED notValueVars

BinaryOps ==
    {"add", "subtract", "lt", "le", "gt", "ge", "is_greater_than", "is_less_than"}

\* Every other result recorded in valueCall is a record; a truth value is
\* recorded as a record of one field.
Truth(r) == [r EXCEPT !.val = [truth |-> r.val]]

MoneyBinary(op, a, b) ==
    CASE op = "add" -> MoneyAdd(a, b)
      [] op = "subtract" -> MoneySubtract(a, b)
      [] op = "lt" -> Truth(MoneyLt(a, b))
      [] op = "le" -> Truth(MoneyLe(a, b))
      [] op = "gt" -> Truth(MoneyGt(a, b))
      [] op = "ge" -> Truth(MoneyGe(a, b))
      [] op = "is_greater_than" -> Truth(MoneyIsGreaterThan(a, b))
      [] op = "is_less_than" -> Truth(MoneyIsLessThan(a, b))

ValMoneyBinary ==
    \E op \in BinaryOps, a \in MoneyInputs, b \in MoneyInputs :
        /\ valueCall' = ValueCall(op, <<a, b>>, MoneyBinary(op, a, b))
        /\ UNCHANGED notValueVars

ValMoneyMultiply ==
    \E a \in MoneyInputs, multiplier \in MultiplierInputs :
        /\ valueCall' = ValueCall("multiply", <<a, multiplier>>,
                                  MoneyMultiplyDecimal(a, multiplier))
        /\ UNCHANGED notValueVars

ValMoneyDivide ==
    \E a \in MoneyInputs, divisor \in DivisorInputs :
        /\ valueCall' = ValueCall("divide", <<a, divisor>>, MoneyDivide(a, divisor))
        /\ UNCHANGED notValueVars

ValMoneyUnary ==
    \E a \in MoneyInputs :
        /\ \/ valueCall' = ValueCall("negate", <<a>>, MoneyNegate(a))
           \/ valueCall' = ValueCall("abs", <<a>>, MoneyAbs(a))
        /\ UNCHANGED notValueVars

ValBalanceCreate ==
    \E current_balance \in MoneyInputs,
       credit_limit \in {None} \cup {Some(m) : m \in MoneyInputs} :
        /\ valueCall' = ValueCall("ClientBalance.create", <<current_balance, credit_limit>>,
                                  BalanceCreate(current_balance, credit_limit))
        /\ UNCHANGED notValueVars

QuantityInputs == {0, 1, 2}
UnitPriceInputs == {Cents(a, cur) : a \in {-1, 1, 2}, cur \in Currencies}
TotalInputs == {Cents(a, cur) : a \in 0..5, cur \in Currencies}

ValItemNew ==
    \E quantity \in QuantityInputs, unit_price \in UnitPriceInputs, total \in TotalInputs :
        /\ valueCall' = ValueCall("TransactionItem", <<quantity, unit_price, total>>,
                                  NewTransactionItem("med", quantity, unit_price, total))
        /\ UNCHANGED notValueVars

ValTransactionNew ==
    \E type \in TransactionTypes,
       amount \in {None} \cup {Some(Cents(1, cur)) : cur \in Currencies},
       tax \in {Cents(0, cur) : cur \in Currencies},
       discount \in {Cents(0, cur) : cur \in Currencies},
       total \in {Cents(a, cur) : a \in {-1, 1}, cur \in Currencies} :
        /\ valueCall' = ValueCall("Transaction", <<type, amount, tax, discount, total>>,
                                  NewTransaction(1, "ph1", "c1", <<"T", 1>>, type, amount,
                                                 tax, discount, total, None, clock))
        /\ UNCHANGED notValueVars

\* Transaction.add_item on the transaction the last call constructed or
\* changed; the record keeps the transaction as the call leaves it.
ValAddItem ==
    /\ valueCall.op \in {"Transaction", "add_item"}
    /\ valueCall.val # None
    /\ Len(Val(valueCall.val).items) < MaxItems
    /\ \E item \in ItemInputs :
        LET r == AddItem(Val(valueCall.val), item, clock) IN
        /\ valueCall' = [op |-> "add_item", args |-> <<item>>, err |-> r.err,
                         val |-> Some(r.val)]
        /\ UNCHANGED notValueVars

\* Inputs of generate: a type that has no prefix, sequences around the
\* padding width, dates before and after the year 1000.
GenerateTypes == TransactionTypes \cup {"adjustment"}
SequenceInputs == {-5, 0, 42, 9999, 10000}
DateInputs ==
    {r.val : r \in {x \in {DateNew(y, m, d) : y \in {999, 2024}, m \in {1, 6, 11},
                                               d \in {1, 15, 31}} :
                    x.err = "none"}}

\* A string is recorded as a record of one field, as every other result
\* recorded in valueCall is a record.
Text(r) == [r EXCEPT !.val = [text |-> r.val]]

ValGenerate ==
    \E type \in GenerateTypes, sequence \in SequenceInputs, date \in DateInputs,
       padded_year \in BOOLEAN :
        /\ valueCall' = ValueCall("generate", <<type, sequence, date>>,
                                  Text(Generate(type, sequence, date, padded_year)))
        /\ UNCHANGED notValueVars

\* parse on the number the last call generated.
ValParseGenerated ==
    /\ valueCall.op = "generate"
    /\ valueCall.err = "none"
    /\ LET number == Val(valueCall.val).text IN
       valueCall' = ValueCall("parse_generated", Append(valueCall.args, number),
                              Parse(number))
    /\ UNCHANGED notValueVars

\* Inputs of parse: the tokens of a number, well-formed and not, joined by
\* "-", and the same with a token less and a token more.
PrefixTokens ==
    {<<"I", "N", "V">>,
     <<"P", "A", "Y">>,
     <<"C", "N">>,
     <<"D", "N">>,
     <<"X", "X">>,
     <<"i", "n", "v">>}
DateTokens ==
    {<<"2", "0", "2", "4", "0", "1", "1", "5">>,
     <<"2", "0", "2", "4", "0", "1", "1", "5", "9">>,
     <<"2", "0", "2", "4", "1", "1", "5">>,
     <<"2", "0", "2", "4", " ", "1", " ", "5">>,
     <<"2", "0", "2", "4", "0", "2", "3", "0">>,
     <<"0", "0", "0", "0", "0", "1", "0", "1">>,
     <<"2", "0", "2", "4">>,
     <<>>}
SequenceTokens ==
    {<<"0", "0", "0", "1">>,
     <<"1", "0", "0", "0", "0">>,
     <<"+", "1">>,
     <<"1", "_", "0">>,
     <<" ", "7", " ">>,
     <<>>,
     <<"x">>}
NumberInputs ==
    UNION {{p \o <<"-">> \o d \o <<"-">> \o q,
            p \o <<"-">> \o d,
            p \o <<"-">> \o d \o <<"-">> \o q \o <<"-">> \o q} :
           p \in PrefixTokens, d \in DateTokens, q \in SequenceTokens}

ValParse ==
    \E number \in NumberInputs :
        /\ valueCall' = ValueCall("parse", <<number>>, Parse(number))
        /\ UNCHANGED notValueVars

----------------------------------------------------------------------------
(* CreateClientUseCase over the clients table *)

\* re.sub(r"[\s\-\(\)]", "", phone)
Separators == {" ", "-", "(", ")"}
RemoveSeparators(str) == SelectSeq(str, LAMBDA c : c \notin Separators)

StartsWith(str, prefix) ==
    Len(str) >= Len(prefix) /\ SubSeq(str, 1, Len(prefix)) = prefix

\* re.match(r"^\+?[\d\s\-\(\)]+$", value)
MatchesPhoneFormat(value) ==
    LET rest == IF value # <<>> /\ value[1] = "+" THEN Tail(value) ELSE value IN
    /\ rest # <<>>
    /\ \A i \in 1..Len(rest) : IsDigit(rest[i]) \/ rest[i] \in Separators

\* Phone(value, normalized) and its __post_init__
PhoneInit(value, normalized) ==
    IF value = <<>> THEN Raise("ValueError", None)
    ELSE IF normalized = <<>> THEN Raise("ValueError", None)
    ELSE IF ~MatchesPhoneFormat(value) THEN Raise("ValueError", None)
    ELSE Ok(Some([value |-> value, normalized |-> normalized]))

\* Phone.create
PhoneCreate(phone, country_code) ==
    IF phone = <<>> THEN Raise("ValueError", None)
    ELSE LET cleaned == RemoveSeparators(phone)
             normalized ==
                 IF StartsWith(cleaned, <<"+">>) THEN cleaned
                 ELSE IF StartsWith(cleaned, <<"5", "4">>) /\ Len(cleaned) > 10
                 THEN <<"+">> \o cleaned
                 ELSE IF StartsWith(cleaned, <<"9">>) /\ Len(cleaned) = 10
                 THEN country_code \o <<"9">> \o Tail(cleaned)
                 ELSE IF StartsWith(cleaned, <<"0">>)
                 THEN country_code \o Tail(cleaned)
                 ELSE country_code \o cleaned
         IN PhoneInit(phone, normalized)

\* The default country_code of Phone.create
DefaultCountryCode == <<"+", "5", "4">>

ClientFindByPhone_AnyPharmacy(rows, phone, pharmacy_id) ==
    IF \E i \in 1..Len(rows) : rows[i].phone_normalized = phone.normalized
    THEN Some(rows[CHOOSE i \in 1..Len(rows) :
                       rows[i].phone_normalized = phone.normalized])
    ELSE None

\* ClientRepository.find_by_phone: the row of that pharmacy with that
\* normalized phone, deleted or not.
ClientFindByPhone(rows, phone, pharmacy_id) ==
    IF \E i \in 1..Len(rows) : /\ rows[i].pharmacy_id = Some(pharmacy_id)
                               /\ rows[i].phone_normalized = phone.normalized
    THEN Some(rows[CHOOSE i \in 1..Len(rows) :
                       /\ rows[i].pharmacy_id = Some(pharmacy_id)
                       /\ rows[i].phone_normalized = phone.normalized])
    ELSE None

\* ClientMapper.to_model, with the phone columns
ClientToModel(e, phone) ==
    [id |-> e.id,
     pharmacy_id |-> e.pharmacy_id,
     phone |-> phone.value,
     phone_normalized |-> phone.normalized,
     credit_limit |-> e.balance.credit_limit.amount,
     current_balance |-> e.balance.current_balance.amount,
     status |-> e.status,
     tags |-> e.tags,
     created_at |-> e.created_at,
     updated_at |-> e.updated_at,
     deleted_at |-> e.deleted_at]

\* The table's uq_pharmacy_client_phone constraint
UniquePharmacyPhone(rows) ==
    \A i, j \in 1..Len(rows) :
        (/\ rows[i].pharmacy_id = rows[j].pharmacy_id
         /\ rows[i].phone_normalized = rows[j].phone_normalized) => i = j

\* ClientRepository.create: add and commit; the commit fails on a row that
\* breaks the unique constraint.
ClientCreate(rows, e, phone) ==
    LET added == Append(rows, ClientToModel(e, phone)) IN
    IF UniquePharmacyPhone(added) THEN Ok(added) ELSE Raise("IntegrityError", rows)

PhoneInputs ==
    {<<"+", "5", "4", "1", "1">>,
     <<"1", "1">>,
     <<"0", "1", "1">>,
     <<"(", "1", ")", " ", "1">>,
     <<"5", "4", "1", "1">>,
     <<"1", "a">>,
     <<>>}

\* CreateClientDTO: the pharmacy, the raw phone and the credit limit in
\* thousandths; the optional fields are left out.
CreateClientCommands ==
    [pharmacy_id : Pharmacies, phone : PhoneInputs, credit_limit : {-10, 20}]

NoClientCommand == [pharmacy_id |-> "none", phone |-> <<>>, credit_limit |-> 0]

IdleClientProc ==
    [pc |-> "idle", cmd |-> NoClientCommand, phone |-> None, err |-> "none",
     create_calls |-> 0]

\* The table before the requests: empty, or one client of the second pharmacy.
InitialClientTables ==
    {<<>>,
     <<ClientToModel(NewClient(1, Some("ph2"),
                               BalanceCreate(MoneyZero("ARS").val, None).val,
                               "active", 0).val,
                     Val(PhoneCreate(<<"1", "1">>, DefaultCountryCode).val))>>}

CreateClientInit ==
    /\ valueCall = NoValueCall
    /\ clientRows \in InitialClientTables
    /\ txnRows = <<>>
    /\ nextSeq = <<>>
    /\ procs = [p \in Procs |-> IdleClientProc]
    /\ appliedCount = <<>>
    /\ appliedSum = <<>>

\* execute, up to the first await: Phone.create, then
\* await client_repository.find_by_phone(phone, pharmacy_id) and the
\* duplicate check on its result.
CreateClientFind(p) ==
    /\ procs[p].pc = "idle"
    /\ \E cmd \in CreateClientCommands :
        LET phone == PhoneCreate(cmd.phone, DefaultCountryCode) IN
        IF phone.err # "none"
        THEN procs' = [procs EXCEPT ![p].pc = "done", ![p].cmd = cmd,
                                    ![p].err = phone.err]
        ELSE procs' = [procs EXCEPT ![p].pc = "find", ![p].cmd = cmd,
                                    ![p].phone = phone.val]
    /\ UNCHANGED <<clientRows, txnRows, nextSeq, appliedCount, appliedSum, notUcVars>>

\* execute, after find_by_phone returned: the rows are read when the query
\* runs, which is when this step is taken.
CreateClientCheck(p) ==
    /\ procs[p].pc = "find"
    /\ LET existing == ClientFindByPhone(clientRows, Val(procs[p].phone),
                                         procs[p].cmd.pharmacy_id) IN
        IF existing # None
        THEN Finish(p, "DuplicateEntityError")
        ELSE procs' = [procs EXCEPT ![p].pc = "create"]
    /\ UNCHANGED <<clientRows, txnRows, nextSeq, appliedCount, appliedSum, notUcVars>>

\* execute, from the credit limit to await client_repository.create(client)
CreateClientPersist(p) ==
    /\ procs[p].pc = "create"
    /\ LET cmd == procs[p].cmd
           credit_limit == MoneyCreate(cmd.credit_limit, "ARS")
           balance == BalanceCreate(MoneyZero("ARS").val, Some(credit_limit.val))
       IN
        IF balance.err # "none"
        THEN /\ Finish(p, balance.err)
             /\ UNCHANGED clientRows
        ELSE LET entity == NewClient(Len(clientRows) + 1, Some(cmd.pharmacy_id),
                                     balance.val, "active", clock)
                 created == ClientCreate(clientRows, entity.val, Val(procs[p].phone))
             IN /\ clientRows' = created.val
                /\ procs' = [procs EXCEPT ![p].pc = "done",
                                          ![p].err = created.err,
                                          ![p].create_calls = @ + 1]
    /\ UNCHANGED <<txnRows, nextSeq, appliedCount, appliedSum, notUcVars>>

----------------------------------------------------------------------------
(* TransactionService.update_payment_status and its callers, over the stored
   rows of the transactions and clients tables *)

\* TransactionService.get_transaction: by id, scoped to the pharmacy, rows
\* with cancelled_at left out.
GetTransaction(txns, transaction_id, pharmacy_id) ==
    IF /\ transaction_id \in DOMAIN txns
       /\ txns[transaction_id].pharmacy_id = pharmacy_id
       /\ txns[transaction_id].cancelled_at = None
    THEN Some(txns[transaction_id])
    ELSE None

\* ClientService.get_client: by id, scoped to the pharmacy, deleted rows left
\* out.
GetClient(clients, client_id, pharmacy_id) ==
    IF /\ client_id \in DOMAIN clients
       /\ clients[client_id].pharmacy_id = Some(pharmacy_id)
       /\ clients[client_id].deleted_at = None
    THEN Some(clients[client_id])
    ELSE None

\* ClientService.update_client_balance: current_balance += Decimal(str(amount)).
\* The amount is the float of a DECIMAL(12, 2) column; with at most 12
\* significant digits str(float(x)) is x again, so the amount is counted in
\* cents as it is.
UpdateClientBalance(clients, client_id, pharmacy_id, amount, now) ==
    IF GetClient(clients, client_id, pharmacy_id) = None
    THEN clients
    ELSE [clients EXCEPT ![client_id].current_balance = @ + amount,
                         ![client_id].updated_at = now]

\* for key, value in updates.items(): setattr(transaction, key, value)
ApplyUpdates(row, updates) ==
    [row EXCEPT
        !.mercadopago_payment_id =
            IF updates.mercadopago_payment_id # None
            THEN updates.mercadopago_payment_id ELSE @,
        !.mercadopago_preference_id =
            IF updates.mercadopago_preference_id # None
            THEN updates.mercadopago_preference_id ELSE @,
        !.mercadopago_payment_link =
            IF updates.mercadopago_payment_link # None
            THEN updates.mercadopago_payment_link ELSE @]

NoUpdates ==
    [mercadopago_payment_id |-> None, mercadopago_preference_id |-> None,
     mercadopago_payment_link |-> None]

UpdatePaymentStatus_NoPaidAtGuard(txns, clients, transaction_id, pharmacy_id, payment_status, updates, now) ==
    LET found == GetTransaction(txns, transaction_id, pharmacy_id) IN
    IF found = None
    THEN [txns |-> txns, clients |-> clients, credited |-> FALSE]
    ELSE LET transaction == Val(found)
             completing == payment_status = "completed"
             credit == completing /\ transaction.transaction_type = "invoice"
             row == [transaction EXCEPT
                        !.payment_status = payment_status,
                        !.paid_at = IF completing THEN Some(now) ELSE @]
         IN [txns |-> [txns EXCEPT ![transaction_id] = ApplyUpdates(row, updates)],
             clients |-> IF credit
                         THEN UpdateClientBalance(clients, transaction.client_id,
                                                  pharmacy_id,
                                                  transaction.total_amount, now)
                         ELSE clients,
             credited |-> credit /\ GetClient(clients, transaction.client_id,
                                              pharmacy_id) # None]

\* TransactionService.update_payment_status: the status is overwritten; paid_at
\* is stamped, and an invoice's total credited to its client, only when the new
\* status is completed and paid_at is still unset.
UpdatePaymentStatus(txns, clients, transaction_id, pharmacy_id, payment_status, updates, now) ==
    LET found == GetTransaction(txns, transaction_id, pharmacy_id) IN
    IF found = None
    THEN [txns |-> txns, clients |-> clients, credited |-> FALSE]
    ELSE LET transaction == Val(found)
             completing == payment_status = "completed" /\ transaction.paid_at = None
             credit == completing /\ transaction.transaction_type = "invoice"
             row == [transaction EXCEPT
                        !.payment_status = payment_status,
                        !.paid_at = IF completing THEN Some(now) ELSE @]
         IN [txns |-> [txns EXCEPT ![transaction_id] = ApplyUpdates(row, updates)],
             clients |-> IF credit
                         THEN UpdateClientBalance(clients, transaction.client_id,
                                                  pharmacy_id,
                                                  transaction.total_amount, now)
                         ELSE clients,
             credited |-> credit /\ GetClient(clients, transaction.client_id,
                                              pharmacy_id) # None]

\* mercadopago_webhook: status_mapping.get(mp_status, "pending")
StatusMapping(mp_status) ==
    CASE mp_status = "approved" -> "completed"
      [] mp_status = "pending" -> "pending"
      [] mp_status = "in_process" -> "pending"
      [] mp_status = "rejected" -> "failed"
      [] mp_status = "cancelled" -> "cancelled"
      [] mp_status = "refunded" -> "refunded"
      [] OTHER -> "pending"

MpStatuses ==
    {"approved", "pending", "in_process", "rejected", "cancelled", "refunded",
     "charged_back"}

\* The stored transactions: an invoice and a payment of client c1, pending,
\* with totals of 2 cents and 1 cent.
StoredTransactions ==
    [id \in 1..2 |->
        [id |-> id,
         pharmacy_id |-> "ph1",
         client_id |-> "c1",
         transaction_type |-> IF id = 1 THEN "invoice" ELSE "payment",
         total_amount |-> IF id = 1 THEN 2 ELSE 1,
         payment_status |-> "pending",
         paid_at |-> None,
         cancelled_at |-> None,
         mercadopago_payment_id |-> None,
         mercadopago_preference_id |-> None,
         mercadopago_payment_link |-> None]]

\* The balance of client c1 after its invoice was charged.
ChargedBalance == -2

PaymentStatusInit ==
    /\ valueCall = NoValueCall
    /\ clientRows = [InitialRows EXCEPT !["c1"].current_balance = ChargedBalance]
    /\ txnRows = StoredTransactions
    /\ nextSeq = <<>>
    /\ procs = <<>>
    /\ appliedCount = [id \in DOMAIN StoredTransactions |-> 0]
    /\ appliedSum = <<>>

\* One call of update_payment_status from caller op, recorded with the row it
\* found.
PaymentStatusCall(op, transaction_id, pharmacy_id, payment_status, updates) ==
    LET r == UpdatePaymentStatus(txnRows, clientRows, transaction_id, pharmacy_id,
                                 payment_status, updates, clock)
    IN /\ txnRows' = r.txns
       /\ clientRows' = r.clients
       /\ appliedCount' = IF r.credited
                          THEN [appliedCount EXCEPT ![transaction_id] = @ + 1]
                          ELSE appliedCount
       /\ valueCall' = ValueCall(op, <<transaction_id, payment_status>>,
                                 Ok(txnRows[transaction_id]))
       /\ UNCHANGED <<nextSeq, procs, appliedSum, clock, txnVars, ledgerVars, clientVars>>

\* mercadopago_webhook: a payment notification whose external_reference names
\* a stored transaction; the pharmacy is read from that transaction.
MercadopagoWebhook ==
    \E transaction_id \in DOMAIN txnRows, mp_status \in MpStatuses :
        PaymentStatusCall("mercadopago_webhook", transaction_id,
                          txnRows[transaction_id].pharmacy_id,
                          StatusMapping(mp_status),
                          [NoUpdates EXCEPT !.mercadopago_payment_id = Some("mp1")])

\* create_payment_link: for a transaction of the caller's pharmacy without a
\* preference yet, the status is written as pending with the new preference.
CreatePaymentLink ==
    \E transaction_id \in DOMAIN txnRows, pharmacy_id \in Pharmacies :
        /\ GetTransaction(txnRows, transaction_id, pharmacy_id) # None
        /\ txnRows[transaction_id].mercadopago_preference_id = None
        /\ PaymentStatusCall("create_payment_link", transaction_id, pharmacy_id,
                             "pending",
                             [NoUpdates EXCEPT !.mercadopago_preference_id = Some("pref1"),
                                               !.mercadopago_payment_link = Some("link1")])

\* ClientService.delete_client between two notifications: the row gets the
\* tombstone and status inactive.
ServiceDeleteClient ==
    /\ clientRows["c1"].deleted_at = None
    /\ clientRows' = [clientRows EXCEPT !["c1"].deleted_at = Some(clock),
                                        !["c1"].status = "inactive"]
    /\ UNCHANGED <<txnRows, nextSeq, procs, appliedCount, appliedSum, notUcVars>>

----------------------------------------------------------------------------
(* Specifications *)

InitTxn == clock = 0 /\ TxnInit /\ LedgerIdle /\ ClientIdle /\ UcIdle

NextTxn ==
    \/ TxnMarkAsPaid
    \/ TxnMarkAsFailed
    \/ TxnCancel
    \/ TxnRefund

SpecTxn == InitTxn /\ [][NextTxn]_vars

InitLedger == clock = 0 /\ TxnIdle /\ LedgerInit /\ ClientIdle /\ UcIdle

NextLedger ==
    \/ LedgerApplyCharge
    \/ LedgerApplyPayment

SpecLedger == InitLedger /\ [][NextLedger]_vars

InitBalance == clock = 0 /\ TxnIdle /\ BalanceQueryInit /\ ClientIdle /\ UcIdle

NextBalance ==
    \/ LedgerAvailableCredit
    \/ LedgerCanPurchase

SpecBalance == InitBalance /\ [][NextBalance]_vars

InitClient == clock = 0 /\ TxnIdle /\ LedgerIdle /\ ClientInit /\ UcIdle

NextClient ==
    \/ CliApplyCharge
    \/ CliApplyPayment
    \/ CliUpdateCreditLimit
    \/ CliActivate
    \/ CliDeactivate
    \/ CliBlock
    \/ CliSuspend
    \/ CliValidateForTransaction
    \/ CliValidateForCreditIncrease

SpecClient == InitClient /\ [][NextClient]_vars

\* Either aggregate, under every method of it: an invoice, or a client.
InitAggregates ==
    \/ InitTxn /\ txn.transaction_type = "invoice"
    \/ InitClient

NextTxnMethods ==
    \/ NextTxn
    \/ TxnAddItem
    \/ TxnSetMercadopagoDetails
    \/ TxnSetInvoicePdf
    \/ TxnMarkInvoiceSent

NextAggregates ==
    \/ txn # None /\ NextTxnMethods
    \/ client # None /\ NextClient

SpecAggregates == InitAggregates /\ [][NextAggregates]_vars

InitUseCases == clock = 0 /\ TxnIdle /\ LedgerIdle /\ ClientIdle /\ UcInit

NextUseCases ==
    \/ \E p \in Procs :
        \/ CreateFindClient(p)
        \/ CreateNextSequence(p)
        \/ CreatePersist(p)
        \/ CreateUpdateBalance(p)
        \/ PayFindTransaction(p)
        \/ PayFindClient(p)
        \/ PayUpdateTransaction(p)
        \/ PayUpdateBalance(p)
    \/ DeleteClient

SpecUseCases == InitUseCases /\ [][NextUseCases]_vars

\* One call after another on value objects and constructors.
InitValues == clock = 0 /\ TxnIdle /\ LedgerIdle /\ ClientIdle /\ UcIdle

NextValues ==
    \/ ValMoneyNew
    \/ ValMoneyBinary
    \/ ValMoneyMultiply
    \/ ValMoneyDivide
    \/ ValMoneyUnary
    \/ ValBalanceCreate
    \/ ValItemNew
    \/ ValTransactionNew
    \/ ValAddItem

SpecValues == InitValues /\ [][NextValues]_vars

\* One call after another on the TransactionNumberGenerator.
NextNumbers ==
    \/ ValGenerate
    \/ ValParseGenerated
    \/ ValParse

SpecNumbers == InitValues /\ [][NextNumbers]_vars

\* Two concurrent CreateClientUseCase.execute calls on one clients table.
InitCreateClient == clock = 0 /\ TxnIdle /\ LedgerIdle /\ ClientIdle /\ CreateClientInit

NextCreateClient ==
    \E p \in Procs :
        \/ CreateClientFind(p)
        \/ CreateClientCheck(p)
        \/ CreateClientPersist(p)

SpecCreateClient == InitCreateClient /\ [][NextCreateClient]_vars

\* Payment notifications and payment-link requests, one call after another.
InitPaymentStatus == clock = 0 /\ TxnIdle /\ LedgerIdle /\ ClientIdle /\ PaymentStatusInit

NextPaymentStatus ==
    \/ MercadopagoWebhook
    \/ CreatePaymentLink
    \/ ServiceDeleteClient

SpecPaymentStatus == InitPaymentStatus /\ [][NextPaymentStatus]_vars

----------------------------------------------------------------------------
(* Claims about the payment-status state machine, checked under SpecTxn *)

\* C6: a refunded transaction is terminal: once payment_status is refunded,
\* no call of mark_as_paid, mark_as_failed, cancel or refund changes it.
C6_RefundedIsTerminal ==
    [][txn.payment_status = "refunded" => txn'.payment_status = "refunded"]_vars

\* C7: a cancelled transaction is terminal: once payment_status is cancelled,
\* no call of mark_as_paid, mark_as_failed, cancel or refund changes it.
C7_CancelledIsTerminal ==
    [][txn.payment_status = "cancelled" => txn'.payment_status = "cancelled"]_vars

\* A call of mark_as_paid on a cancelled transaction was rejected.
C7_Witness ==
    /\ txn.payment_status = "cancelled"
    /\ txnCall.op = "mark_as_paid"
    /\ txnResult = "InvalidStateTransitionError"

\* C8: from completed the only status change a lifecycle call can make is to
\* refunded.
C8_CompletedOnlyToRefunded ==
    [][txn.payment_status = "completed"
        => txn'.payment_status \in {"completed", "refunded"}]_vars

\* C9: mark_as_paid on a pending or failed transaction sets payment_status to
\* completed and records the given payment_method and a paid_at timestamp (the
\* one given, else the time of the call); on a completed or cancelled
\* transaction it raises InvalidStateTransitionError and changes nothing.
C9_MarkAsPaid ==
    [][txnCall'.op = "mark_as_paid" =>
        /\ txn.payment_status \in {"pending", "failed"} =>
            /\ txnResult' = "none"
            /\ txn'.payment_status = "completed"
            /\ txn'.payment_method = txnCall'.payment_method
            /\ txn'.paid_at =
                 IF txnCall'.paid_at # None THEN txnCall'.paid_at ELSE Some(clock')
        /\ txn.payment_status \in {"completed", "cancelled"} =>
            /\ txnResult' = "InvalidStateTransitionError"
            /\ txn' = txn]_vars

\* mark_as_paid was called again on a transaction it had completed, and raised.
C9_Witness ==
    /\ txnCall.op = "mark_as_paid"
    /\ txnResult = "InvalidStateTransitionError"
    /\ txn.payment_status = "completed"
    /\ txn.payment_method # None
    /\ txn.paid_at # None

\* C10: refund succeeds only when payment_status is completed, and then sets
\* it to refunded; in every other status it raises InvalidStateTransitionError
\* and leaves the transaction unchanged.
C10_Refund ==
    [][txnCall'.op = "refund" =>
        IF txn.payment_status = "completed"
        THEN txnResult' = "none" /\ txn'.payment_status = "refunded"
        ELSE txnResult' = "InvalidStateTransitionError" /\ txn' = txn]_vars

\* refund was called on a completed transaction and refunded it.
C10_Witness ==
    /\ txnCall.op = "refund"
    /\ txnResult = "none"
    /\ txn.payment_status = "refunded"
    /\ txn.paid_at # None

\* C11: cancel raises InvalidStateTransitionError on a completed or refunded
\* transaction and changes nothing; in every other status it sets
\* payment_status to cancelled and records cancelled_by and, as cancelled_at,
\* the time of the call.
C11_Cancel ==
    [][txnCall'.op = "cancel" =>
        IF txn.payment_status \in {"completed", "refunded"}
        THEN txnResult' = "InvalidStateTransitionError" /\ txn' = txn
        ELSE /\ txnResult' = "none"
             /\ txn'.payment_status = "cancelled"
             /\ txn'.cancelled_by = txnCall'.cancelled_by
             /\ txn'.cancelled_at = Some(clock')]_vars

\* cancel went through on a failed transaction, after time had passed.
C11_Witness ==
    /\ txnCall.op = "cancel"
    /\ txnResult = "none"
    /\ txn.payment_status = "cancelled"
    /\ txn.extra_metadata.failure_reason # None
    /\ txn.cancelled_by = Some("u1")
    /\ txn.cancelled_at = Some(clock)
    /\ clock > 0

\* C12: mark_as_failed raises InvalidStateTransitionError exactly when the
\* transaction is cancelled (and then changes nothing); in every other status
\* it sets payment_status to failed.
C12_MarkAsFailed ==
    [][txnCall'.op = "mark_as_failed" =>
        IF txn.payment_status = "cancelled"
        THEN txnResult' = "InvalidStateTransitionError" /\ txn' = txn
        ELSE txnResult' = "none" /\ txn'.payment_status = "failed"]_vars

\* mark_as_failed went through on a completed transaction.
C12_Witness ==
    /\ txnCall.op = "mark_as_failed"
    /\ txnResult = "none"
    /\ txn.payment_status = "failed"
    /\ txn.paid_at # None

----------------------------------------------------------------------------
(* Claims about every method of the aggregates, checked under SpecAggregates *)

\* C13: a Client or Transaction method call that raises leaves every field of
\* the aggregate as it was before the call (balance, status, items,
\* extra_metadata and updated_at included).
C13_RaiseChangesNothing ==
    [][/\ (txn # None /\ txnResult' # "none") => txn' = txn
       /\ (client # None /\ clientResult' # "none") => client' = client]_vars

\* add_item rejected an item in another currency, later than the last change
\* of the transaction.
C13_Witness ==
    /\ txn # None
    /\ txnCall.op = "add_item"
    /\ txnResult = "ValidationError"
    /\ txn.updated_at < clock

\* C14: no method of a Transaction (mark_as_paid, mark_as_failed, cancel,
\* refund, add_item, set_mercadopago_details, set_invoice_pdf,
\* mark_invoice_sent) changes amount, tax_amount, discount_amount,
\* total_amount, transaction_type, client_id or pharmacy_id.
C14_AmountsAndScopeFrozen ==
    [][txn # None =>
        /\ txn'.amount = txn.amount
        /\ txn'.tax_amount = txn.tax_amount
        /\ txn'.discount_amount = txn.discount_amount
        /\ txn'.total_amount = txn.total_amount
        /\ txn'.transaction_type = txn.transaction_type
        /\ txn'.client_id = txn.client_id
        /\ txn'.pharmacy_id = txn.pharmacy_id]_vars

\* A transaction that was paid and refunded, has a line item, gateway details,
\* an invoice file and a sent invoice.
C14_Witness ==
    /\ txn # None
    /\ txn.payment_status = "refunded"
    /\ txn.items # <<>>
    /\ txn.mercadopago_payment_id # None
    /\ txn.invoice_pdf_path # None
    /\ txn.invoice_sent_at # None

----------------------------------------------------------------------------
(* Claims about the ledger, checked under SpecLedger and SpecClient *)

RECURSIVE SignedSum(_)
\* Payments minus charges over a sequence of ledger calls, in cents.
SignedSum(ops) ==
    IF ops = <<>>
    THEN 0
    ELSE LET last == ops[Len(ops)] IN
         SignedSum(SubSeq(ops, 1, Len(ops) - 1))
             + (IF last.op = "apply_payment" THEN last.amount.amount
                ELSE -last.amount.amount)

SameCurrencyOps ==
    \A i \in 1..Len(ledgerOps) :
        ledgerOps[i].amount.currency = ledgerInit.current_balance.currency

C5_ApplyCharge ==
    [][clientCall'.op = "apply_charge" =>
        LET amount == Val(clientCall'.amount)
            balance == client.balance.current_balance
            limit == client.balance.credit_limit
        IN
        IF client.status # "active"
        THEN clientResult' = "ValidationError" /\ client' = client
        ELSE amount.currency = balance.currency =>
            IF balance.amount - amount.amount >= -limit.amount
            THEN /\ clientResult' = "none"
                 /\ client'.balance.current_balance.amount =
                        balance.amount - amount.amount
                 /\ client'.balance.credit_limit = limit
                 /\ client'.status = "active"
            ELSE /\ clientResult' = "CreditLimitExceededError"
                 /\ client' = client]_vars

\* A charge that used up exactly the remaining credit went through.
C5_Witness ==
    /\ clientCall.op = "apply_charge"
    /\ clientResult = "none"
    /\ Val(clientCall.amount).amount > 0
    /\ client.balance.credit_limit.amount > 0
    /\ client.balance.current_balance.amount = -client.balance.credit_limit.amount

C20_ApplyPayment ==
    [][clientCall'.op = "apply_payment" =>
        LET amount == Val(clientCall'.amount)
            balance == client.balance.current_balance
        IN
        amount.currency = balance.currency =>
            /\ clientResult' = "none"
            /\ client'.balance.current_balance.amount = balance.amount + amount.amount
            /\ client'.balance.current_balance.currency = balance.currency
            /\ client'.balance.credit_limit = client.balance.credit_limit
            /\ client'.status = client.status]_vars

\* A payment went through on a blocked client in debt.
C20_Witness ==
    /\ clientCall.op = "apply_payment"
    /\ clientResult = "none"
    /\ client.status = "blocked"
    /\ Val(clientCall.amount).amount > 0
    /\ client.balance.current_balance.amount < 0

----------------------------------------------------------------------------
(* Claims about the read-only calls on a ClientBalance, checked under       *)
(* SpecBalance                                                              *)

C17_RemainingCapacity ==
    ledgerQuery.op = "available_credit" =>
        LET balance == ledger.current_balance.amount
            limit == ledger.credit_limit.amount
        IN
        /\ ledgerQuery.err = "none"
        /\ ledgerQuery.val.amount =
               IF balance >= 0 THEN limit + balance
               ELSE IF -balance > limit THEN 0
               ELSE limit + balance

\* C18: ClientBalance.can_purchase(amount) is true exactly when
\* current_balance - amount is >= 0 or its absolute value is <= credit_limit,
\* that is when amount <= current_balance + credit_limit.  (amount in the
\* currency of the balance.)
C18_CanPurchase ==
    (/\ ledgerQuery.op = "can_purchase"
     /\ Val(ledgerQuery.amount).currency = ledger.current_balance.currency) =>
        LET amount == Val(ledgerQuery.amount).amount
            projected == ledger.current_balance.amount - amount
            limit == ledger.credit_limit.amount
        IN
        /\ ledgerQuery.err = "none"
        /\ ledgerQuery.val =
               (projected >= 0
                \/ (IF projected < 0 THEN -projected ELSE projected) <= limit)
        /\ ledgerQuery.val = (amount <= ledger.current_balance.amount + limit)

\* can_purchase approved an amount above the credit limit, covered by a
\* positive balance.
C18_Witness ==
    /\ ledgerQuery.op = "can_purchase"
    /\ ledgerQuery.err = "none"
    /\ ledgerQuery.val = TRUE
    /\ ledger.current_balance.amount > 0
    /\ Val(ledgerQuery.amount).amount > ledger.credit_limit.amount
    /\ Val(ledgerQuery.amount).amount > ledger.current_balance.amount

----------------------------------------------------------------------------
(* Claims about the use cases, checked under SpecUseCases *)

\* C1: across CreateTransactionUseCase.execute and the ProcessPaymentUseCase
\* executions on the created transaction, the transaction's total_amount is
\* applied to the client's balance at most once, whatever its type.
C1_AppliedAtMostOnce ==
    \A id \in DOMAIN appliedCount : appliedCount[id] <= 1

\* C2: CreateTransactionUseCase.execute never crosses tenants: once it has
\* persisted a transaction, the client it loaded belongs to the pharmacy of the
\* command, so every stored transaction has the pharmacy_id of its client.
C2_NoTenantCrossing ==
    /\ \A p \in Procs :
        (procs[p].cmd.kind = "create" /\ procs[p].txn # None) =>
            Val(procs[p].client).pharmacy_id = procs[p].cmd.pharmacy_id
    /\ \A i \in 1..Len(txnRows) :
        clientRows[txnRows[i].client_id].pharmacy_id = Some(txnRows[i].pharmacy_id)

\* C3: under any interleaving of two use-case executions on the same client,
\* once both have finished the stored current_balance is the initial balance
\* plus every applied payment minus every applied charge.
C3_NoLostUpdate ==
    (\A p \in Procs : procs[p].pc = "done") =>
        \A c \in ClientIds :
            clientRows[c].current_balance =
                InitialRows[c].current_balance + appliedSum[c]

\* C15: a successful ProcessPaymentUseCase.execute sets the transaction's
\* payment_status to completed and applies its total_amount as a payment to the
\* owning client: in the step that ends the execution the stored balance is
\* the balance the execution read plus total_amount, whatever the type.
C15_PaymentApplied ==
    [][\A p \in Procs :
        (/\ procs[p].cmd.kind = "pay"
         /\ procs[p].pc # "done"
         /\ procs'[p].pc = "done"
         /\ procs'[p].err = "none") =>
            LET t == Val(procs'[p].txn)
                c == Val(procs[p].client)
            IN /\ txnRows'[t.id].payment_status = "completed"
               /\ clientRows'[c.id].current_balance =
                      c.balance.current_balance.amount + t.total_amount.amount]_vars

\* C21: deleting a client sets the deleted_at tombstone and forces status to
\* inactive, so a client found after its deletion has status inactive.
C21_DeletedIsInactive ==
    \A id \in ClientIds :
        LET found == ClientFindById(clientRows, id) IN
        (found # None /\ IsDeleted(Val(found))) => Val(found).status = "inactive"

----------------------------------------------------------------------------
(* Claims about the status methods and the validator, checked under         *)
(* SpecClient                                                               *)

\* C22: each of Client.activate, deactivate, block and suspend is idempotent:
\* on a client already in the target status the call changes nothing (not even
\* updated_at), otherwise it sets the target status; applying the operation
\* again, at any later time, gives the state the first application gave.
C22_StatusIdempotent ==
    [][clientCall'.op \in {"activate", "deactivate", "block", "suspend"} =>
        LET target == CASE clientCall'.op = "activate" -> "active"
                        [] clientCall'.op = "deactivate" -> "inactive"
                        [] clientCall'.op = "block" -> "blocked"
                        [] clientCall'.op = "suspend" -> "suspended"
        IN
        /\ clientResult' = "none"
        /\ IF client.status = target
           THEN client' = client
           ELSE /\ client'.status = target
                /\ client'.balance = client.balance
                /\ client'.updated_at = clock'
        /\ \A now \in clock'..MaxClock :
              ClientSetStatus(client', target, now) = Ok(client')]_vars

\* block was called on a client already blocked, later than its last change.
C22_Witness ==
    /\ clientCall.op = "block"
    /\ clientResult = "none"
    /\ client.status = "blocked"
    /\ client.updated_at < clock

C24_ValidatorRaisesCreditLimitExceeded ==
    (/\ client # None
     /\ clientCall.op = "validate_for_transaction"
     /\ client.status = "active"
     /\ client.deleted_at = None
     /\ Val(clientCall.amount).currency = client.balance.current_balance.currency
     /\ Val(clientCall.amount).amount >
            client.balance.current_balance.amount + client.balance.credit_limit.amount)
        => clientResult = "CreditLimitExceededError"

\* C25: ClientValidator.validate_for_credit_increase(client, new_limit) raises
\* exactly when new_limit is negative, or its currency differs from the
\* existing limit's, or it is lower than the existing limit while the client
\* owes money, or the client is not active; it never changes the client.
C25_ValidateForCreditIncrease ==
    [][clientCall'.op = "validate_for_credit_increase" =>
        LET new_limit == Val(clientCall'.amount)
            limit == client.balance.credit_limit
        IN
        /\ client' = client
        /\ (clientResult' # "none") <=>
              \/ new_limit.amount < 0
              \/ new_limit.currency # limit.currency
              \/ /\ new_limit.amount < limit.amount
                 /\ client.balance.current_balance.amount < 0
              \/ client.status # "active"]_vars

\* The validator refused to lower the limit of an active client in debt.
C25_Witness ==
    /\ clientCall.op = "validate_for_credit_increase"
    /\ clientResult = "BusinessRuleViolation"
    /\ client.status = "active"
    /\ client.balance.current_balance.amount < 0
    /\ Val(clientCall.amount).amount >= 0
    /\ Val(clientCall.amount).amount < client.balance.credit_limit.amount

----------------------------------------------------------------------------
(* Claims about the value objects and the constructors, checked under       *)
(* SpecValues                                                               *)

Abs(n) == IF n < 0 THEN -n ELSE n

\* r is n / d (d > 0) rounded half-up to a whole number: at most half a unit
\* away, and on a tie the one farther from zero.
HalfUp(r, n, d) ==
    /\ 2 * Abs(r * d - n) <= d
    /\ 2 * Abs(r * d - n) = d => Abs(r * d) > Abs(n)

\* C26: every Money value, however produced (Money.create, the constructor,
\* add, subtract, multiply, divide, negate, abs), stores a whole number of
\* cents that is the exact mathematical value rounded half-up to 2 decimal
\* places.
C26_HalfUpRounding ==
    valueCall.err = "none" =>
        LET v == Val(valueCall.val)
            a == valueCall.args[1]
            b == valueCall.args[2]
        IN
        /\ valueCall.op \in {"Money", "create"} => HalfUp(v.amount, a, 10)
        /\ valueCall.op = "add" => v.amount = a.amount + b.amount
        /\ valueCall.op = "subtract" => v.amount = a.amount - b.amount
        /\ valueCall.op = "negate" => v.amount = -a.amount
        /\ valueCall.op = "abs" => v.amount = Abs(a.amount)
        /\ valueCall.op = "divide" =>
               HalfUp(v.amount, IF b > 0 THEN a.amount * 10 ELSE -a.amount * 10, Abs(b))
        /\ valueCall.op = "multiply" =>
               v.amount = QuantizeDecimal(ExactProduct(a.amount, b))

C28_ConstructionFailsWithValidationError ==
    /\ valueCall.op \in {"create", "ClientBalance.create"}
    /\ valueCall.err # "none"
    => valueCall.err = "ValidationError"

\* C29: in every Transaction that is constructed or reached through add_item,
\* amount, tax_amount, discount_amount, total_amount and the total of every
\* item carry the same currency code.
C29_OneCurrency ==
    \/ valueCall.op = "Transaction" /\ valueCall.err = "none"
    \/ valueCall.op = "add_item"
    => LET t == Val(valueCall.val)
           currency == t.total_amount.currency
       IN
       /\ t.amount # None => Val(t.amount).currency = currency
       /\ t.tax_amount.currency = currency
       /\ t.discount_amount.currency = currency
       /\ \A i \in 1..Len(t.items) : t.items[i].total.currency = currency

\* C30: constructing a TransactionItem succeeds exactly when quantity > 0,
\* unit_price is not negative and |total - unit_price * quantity| <= 0.01; in
\* every other case it fails with ValidationError.
C30_TransactionItem ==
    valueCall.op = "TransactionItem" =>
        LET quantity == valueCall.args[1]
            unit_price == valueCall.args[2]
            total == valueCall.args[3]
            accepted == /\ quantity > 0
                        /\ unit_price.amount >= 0
                        /\ Abs(total.amount - unit_price.amount * quantity) <= 1
        IN
        /\ valueCall.err = "none" <=> accepted
        /\ valueCall.err # "none" => valueCall.err = "ValidationError"

----------------------------------------------------------------------------
(* Claims about the TransactionNumberGenerator, checked under SpecNumbers *)

AllDigits(str) == str # <<>> /\ \A i \in 1..Len(str) : IsDigit(str[i])

\* C31: for every valid transaction type t, sequence s >= 0 and date d,
\* parse(generate(t, s, d)) returns type t, date d and sequence s, and generate
\* gives different numbers for inputs that differ in type, sequence or date.
C31_RoundTrip ==
    /\ valueCall.op = "parse_generated" /\ valueCall.args[2] >= 0 =>
           /\ valueCall.err = "none"
           /\ Val(valueCall.val).transaction_type = valueCall.args[1]
           /\ Val(valueCall.val).sequence = valueCall.args[2]
           /\ Val(valueCall.val).date = valueCall.args[3]
    /\ valueCall.op = "generate" /\ valueCall.err = "none" /\ valueCall.args[2] >= 0 =>
           \A t \in TransactionTypes, q \in SequenceInputs, d \in DateInputs,
              padded_year \in BOOLEAN :
               q >= 0 /\ <<t, q, d>> # valueCall.args =>
                   Generate(t, q, d, padded_year).val # Val(valueCall.val).text

\* C32: generate(type, sequence, date) returns PREFIX-YYYYMMDD-SEQUENCE, the
\* prefix INV, PAY, CN or DN for invoice, payment, credit_note, debit_note, and
\* the sequence zero-padded to 4 digits, written in full from 10000 on.
C32_NumberFormat ==
    /\ valueCall.op = "generate"
    /\ valueCall.args[1] \in TransactionTypes
    /\ valueCall.args[2] >= 0
    => /\ valueCall.err = "none"
       /\ LET text == Val(valueCall.val).text
              type == valueCall.args[1]
              sequence == valueCall.args[2]
              date == valueCall.args[3]
              dashes == {i \in 1..Len(text) : text[i] = "-"}
              i == CHOOSE k \in dashes : \A j \in dashes : k <= j
              j == CHOOSE k \in dashes : \A l \in dashes : l <= k
              prefix == SubSeq(text, 1, i - 1)
              date_part == SubSeq(text, i + 1, j - 1)
              sequence_part == SubSeq(text, j + 1, Len(text))
          IN
          /\ Cardinality(dashes) = 2
          /\ prefix = CASE type = "invoice" -> <<"I", "N", "V">>
                        [] type = "payment" -> <<"P", "A", "Y">>
                        [] type = "credit_note" -> <<"C", "N">>
                        [] type = "debit_note" -> <<"D", "N">>
          /\ Len(date_part) = 8 /\ AllDigits(date_part)
          /\ DigitsToNat(SubSeq(date_part, 1, 4)) = date.year
          /\ DigitsToNat(SubSeq(date_part, 5, 6)) = date.month
          /\ DigitsToNat(SubSeq(date_part, 7, 8)) = date.day
          /\ AllDigits(sequence_part)
          /\ DigitsToNat(sequence_part) = sequence
          /\ Len(sequence_part) >= 4
          /\ Len(sequence_part) > 4 => sequence_part[1] # "0"

\* C33: parse fails for every input whose number of '-'-separated tokens is
\* not 3, whose prefix is not INV, PAY, CN or DN, whose date segment is not
\* exactly 8 digits, or whose sequence segment is not numeric.
C33_ParseRejects ==
    valueCall.op = "parse" =>
        LET text == valueCall.args[1]
            dashes == {i \in 1..Len(text) : text[i] = "-"}
            i == CHOOSE k \in dashes : \A j \in dashes : k <= j
            j == CHOOSE k \in dashes : \A l \in dashes : l <= k
            prefix == SubSeq(text, 1, i - 1)
            date_part == SubSeq(text, i + 1, j - 1)
            sequence_part == SubSeq(text, j + 1, Len(text))
        IN
        \/ Cardinality(dashes) # 2
        \/ prefix \notin {<<"I", "N", "V">>, <<"P", "A", "Y">>, <<"C", "N">>, <<"D", "N">>}
        \/ ~(Len(date_part) = 8 /\ AllDigits(date_part))
        \/ ~AllDigits(sequence_part)
        => valueCall.err # "none"

----------------------------------------------------------------------------
(* Claims about CreateClientUseCase, checked under SpecCreateClient *)

\* A row of the table holds the pharmacy and the normalized phone of request p.
SamePharmacyAndPhone(row, p) ==
    /\ row.pharmacy_id = Some(procs[p].cmd.pharmacy_id)
    /\ row.phone_normalized = Val(procs[p].phone).normalized

\* C34: when find_by_phone answers while the table holds a client of the same
\* pharmacy with the same normalized phone, execute ends with
\* DuplicateEntityError, the table is left as it was and create is never
\* called; when only other pharmacies hold that phone, execute goes on to
\* create, and a valid client is then added for its own pharmacy.
C34_DuplicatePhone ==
    /\ [][\A p \in Procs :
            (procs[p].pc = "find" /\ procs'[p] # procs[p]) =>
                IF \E i \in 1..Len(clientRows) : SamePharmacyAndPhone(clientRows[i], p)
                THEN /\ procs'[p].pc = "done"
                     /\ procs'[p].err = "DuplicateEntityError"
                     /\ procs'[p].create_calls = 0
                     /\ clientRows' = clientRows
                ELSE procs'[p].pc = "create"]_vars
    /\ [][\A p \in Procs :
            (/\ procs[p].pc = "create" /\ procs'[p] # procs[p]
             /\ procs[p].cmd.credit_limit >= 0
             /\ ~\E i \in 1..Len(clientRows) : SamePharmacyAndPhone(clientRows[i], p)) =>
                /\ procs'[p].err = "none"
                /\ Len(clientRows') = Len(clientRows) + 1
                /\ SamePharmacyAndPhone(clientRows'[Len(clientRows')], p)]_vars
    /\ [](\A p \in Procs :
            procs[p].err = "DuplicateEntityError" => procs[p].create_calls = 0)

\* One request was refused as a duplicate while the same normalized phone is
\* held by clients of two pharmacies.
C34_Witness ==
    /\ \E p \in Procs : procs[p].pc = "done" /\ procs[p].err = "DuplicateEntityError"
    /\ \E i, j \in 1..Len(clientRows) :
        /\ clientRows[i].pharmacy_id # clientRows[j].pharmacy_id
        /\ clientRows[i].phone_normalized = clientRows[j].phone_normalized

----------------------------------------------------------------------------
(* Claims about CreateTransactionUseCase as a whole, checked under SpecUseCases *)

\* The stored balance of client c, in cents.
StoredBalance(rows, c) == rows[c].current_balance

\* C35: CreateTransactionUseCase.execute is all-or-nothing: an execution that
\* ends with an exception has stored no transaction and leaves the stored
\* balance as it was, and the step that ends an execution without an
\* exception, its transaction stored, moves the client's stored balance by
\* exactly the total: down for an invoice or a debit note, up for a payment or
\* a credit note.
C35_AllOrNothing ==
    /\ [](\A p \in Procs :
            (procs[p].cmd.kind = "create" /\ procs[p].pc = "done"
             /\ procs[p].err # "none") => procs[p].txn = None)
    /\ [][\A p \in Procs :
            (/\ procs[p].cmd.kind = "create"
             /\ procs[p].pc # "done" /\ procs'[p].pc = "done") =>
                IF procs'[p].err # "none"
                THEN clientRows' = clientRows /\ txnRows' = txnRows
                ELSE LET c == Val(procs[p].cmd.client_id)
                         total == Val(procs[p].total).amount
                     IN /\ procs'[p].txn # None
                        /\ Val(procs'[p].txn).id \in 1..Len(txnRows')
                        /\ StoredBalance(clientRows', c) =
                               IF Val(procs[p].cmd.transaction_type) \in {"invoice", "debit_note"}
                               THEN StoredBalance(clientRows, c) - total
                               ELSE StoredBalance(clientRows, c) + total]_vars

----------------------------------------------------------------------------
(* Claims about sequences of ledger calls on a Client, checked under SpecClient *)

\* The step is a call the claim C36 counts: apply_charge or apply_payment of a
\* non-negative amount, or update_credit_limit to a limit that
\* validate_for_credit_increase accepts for the client as it is; and the call
\* returned.
CountedLedgerCall ==
    /\ clientResult' = "none"
    /\ \/ clientCall'.op = "apply_charge"
       \/ clientCall'.op = "apply_payment" /\ ~IsNegative(Val(clientCall'.amount))
       \/ /\ clientCall'.op = "update_credit_limit"
          /\ ValidateForCreditIncrease(client, Val(clientCall'.amount)).err = "none"

\* C36: from a client whose debt is within the credit limit, a successful
\* apply_charge, a successful apply_payment of a non-negative amount, or an
\* update_credit_limit that validate_for_credit_increase accepted, leaves the
\* debt within the credit limit: is_credit_exceeded stays false.
C36_DebtWithinLimit ==
    [][(~IsCreditExceeded(client.balance) /\ CountedLedgerCall) =>
            /\ ~IsCreditExceeded(client'.balance)
            /\ TotalDebt(client'.balance).val.amount <= client'.balance.credit_limit.amount]_vars

\* A successful apply_charge has just brought the debt to exactly the credit
\* limit.
C36_Witness ==
    /\ clientCall.op = "apply_charge"
    /\ clientResult = "none"
    /\ IsInDebt(client.balance)
    /\ TotalDebt(client.balance).val.amount = client.balance.credit_limit.amount

----------------------------------------------------------------------------
(* Claims about the fields the lifecycle methods write, checked under SpecTxn *)

\* C37: in every state a transaction created pending reaches through
\* mark_as_paid, mark_as_failed, cancel and refund, cancelled_at and
\* cancelled_by are set when payment_status is cancelled and unset otherwise,
\* and a completed or refunded transaction has paid_at and payment_method set.
C37_StatusFields ==
    /\ IF txn.payment_status = "cancelled"
       THEN txn.cancelled_at # None /\ txn.cancelled_by # None
       ELSE txn.cancelled_at = None /\ txn.cancelled_by = None
    /\ txn.payment_status \in {"completed", "refunded"} =>
           txn.paid_at # None /\ txn.payment_method # None

\* A transaction that failed and was then cancelled by a user.
C37_Witness ==
    /\ txn.payment_status = "cancelled"
    /\ txnCall.op = "cancel" /\ txnResult = "none"
    /\ txn.cancelled_by = Some("u1")
    /\ txn.extra_metadata.failure_reason # None

----------------------------------------------------------------------------
(* Claims about TransactionService.update_payment_status, checked under
   SpecPaymentStatus *)

\* C38: whatever notifications arrive for an invoice, in whatever order and
\* however often, its total_amount is credited to the client's balance at most
\* once: the stored balance is the charged balance plus the total of each
\* transaction credited, counted once.
C38_CreditedAtMostOnce ==
    /\ \A id \in DOMAIN txnRows : appliedCount[id] <= 1
    /\ clientRows["c1"].current_balance =
           ChargedBalance + appliedCount[1] * txnRows[1].total_amount
                          + appliedCount[2] * txnRows[2].total_amount

\* An approved notification has just been replayed on an invoice that was
\* already paid and credited once.
C38_Witness ==
    /\ valueCall.op = "mercadopago_webhook"
    /\ valueCall.args = <<1, "completed">>
    /\ Val(valueCall.val).paid_at # None
    /\ Val(valueCall.val).payment_status = "refunded"
    /\ appliedCount[1] = 1
    /\ clientRows["c1"].current_balance = ChargedBalance + 2

----------------------------------------------------------------------------
(* Claims about storing a Client, checked under SpecClient *)

\* C39: a client in any of its four statuses, suspended included, maps through
\* update_model_from_entity to a row that satisfies the status constraint of
\* the clients table.
C39_StatusStorable ==
    ChkClientStatus(UpdateModelFromEntity(InitialRows["c1"], client))

====
